---- MODULE Spec2Model ----
(***************************************************************************)
(* Time-entry aggregation and audit model of azure-time-tracker.           *)
(*                                                                         *)
(* The model follows src/src/shared/timeEntryService.ts.  JavaScript       *)
(* objects are records whose DOMAIN is the set of properties present, so   *)
(* "doc.logs === undefined" is "logs" \notin DOMAIN doc and the object     *)
(* spread {...a, ...b} is b @@ a.  Strings are sequences of characters.    *)
(* Timestamps (ISO strings in the code) are ticks of a clock, two ticks to *)
(* a calendar day; calendar dates are day numbers.                         *)
(***************************************************************************)
EXTENDS Integers, Sequences, FiniteSets, TLC

(* ------------------------------ bounds --------------------------------- *)
MaxCalls == 3        \* setTimeEntry calls started in one behaviour
NumSlots == 2        \* setTimeEntry calls in flight at the same time
MaxIdLen == 2        \* longest user id given to generateId on its own

(* ------------------------------ inputs --------------------------------- *)
Calls == 1..NumSlots
Tabs == {1, 2}
Num(n) == [num |-> n]
StrVal(s) == [str |-> s]
WorkItems == {42}
Users == {<<"u", "1">>, <<"u", "2">>}
\* the display name of each user; the first user has none
userNameOf(u) == IF u = <<"u", "1">> THEN << >> ELSE <<"A">>
\* the users who logged time before the multi-log format
LegacyUsers == {<<"u", "1">>}
\* the (date, hours, comment) of a call: an entry for the first day, a
\* commented change of it, and a zero-hour entry for the second day
LogInputs == {<<1, 3, << >>>>, <<1, 5, <<"c">>>>, <<2, 0, << >>>>}

Null == [null |-> TRUE]
Has(obj, field) == field \in DOMAIN obj

(* ---------------------- strings, numbers, dates ------------------------ *)
DigitChars == <<"0", "1", "2", "3", "4", "5", "6", "7", "8", "9">>

RECURSIVE NumStr(_)
NumStr(n) ==
    IF n < 10 THEN <<DigitChars[n + 1]>>
    ELSE Append(NumStr(n \div 10), DigitChars[(n % 10) + 1])

DigitOf(ch) == CHOOSE d \in 0..9 : DigitChars[d + 1] = ch
IsDigits(s) == s # << >> /\ \A i \in 1..Len(s) : \E d \in 0..9 : DigitChars[d + 1] = s[i]

RECURSIVE ParseDigits(_)
ParseDigits(s) ==
    IF Len(s) = 1 THEN DigitOf(s[1])
    ELSE 10 * ParseDigits(SubSeq(s, 1, Len(s) - 1)) + DigitOf(s[Len(s)])

NaN == [nan |-> TRUE]

\* String(v) inside a template literal
ToStr(v) == IF Has(v, "num") THEN NumStr(v.num) ELSE v.str

\* Number(v)
ToNumber(v) ==
    IF Has(v, "num") THEN v
    ELSE IF Has(v, "str") /\ IsDigits(v.str) THEN Num(ParseDigits(v.str))
    ELSE NaN

\* isoString.slice(0, 10)
DateOf(ts) == (ts + 1) \div 2

\* a plausible slip: the separator between the two components is left out
generateId_glued(workItemId, userId) ==
    <<"time-entry-">> \o ToStr(workItemId) \o userId

\* a plausible slip: the id names the work item only
generateId_perWorkItem(workItemId, userId) == <<"time-entry-">> \o ToStr(workItemId)

generateId(workItemId, userId) ==
    <<"time-entry-">> \o ToStr(workItemId) \o <<"-">> \o userId

Ids == {generateId(Num(w), u) : w \in WorkItems, u \in Users}

(* ------------------------- legacy documents ---------------------------- *)
\* A record written before the multi-log format: scalar hours, no logs.
LegacyDoc(w, u) ==
    [id |-> generateId(Num(w), u), workItemId |-> StrVal(NumStr(w)), userId |-> u,
     userName |-> << >>, hours |-> 3, description |-> << >>,
     createdAt |-> 1, updatedAt |-> 1,
     auditLog |-> <<[timestamp |-> 1, userId |-> u, userName |-> u,
                     action |-> "created", previousHours |-> 0, newHours |-> 3]>>,
     etag |-> 1]

(* -------------------------- getTimeEntry ------------------------------- *)
\* a plausible slip: the scalar is made a log whenever the record has one
Normalize_append(doc, now) ==
    LET dateSrc == DateOf(IF Has(doc, "updatedAt") THEN doc.updatedAt
                          ELSE IF Has(doc, "createdAt") THEN doc.createdAt
                          ELSE now)
        d1 == IF Has(doc, "hours")
              THEN [logs |-> (IF Has(doc, "logs") THEN doc.logs ELSE << >>)
                             \o <<[date |-> dateSrc, hours |-> doc.hours]>>] @@ doc
              ELSE doc
    IN  IF Has(d1, "workItemId")
        THEN [workItemId |-> ToNumber(d1.workItemId)] @@ d1
        ELSE d1

\* the backwards-compat shim and the workItemId normalisation
Normalize(doc, now) ==
    LET dateSrc == DateOf(IF Has(doc, "updatedAt") THEN doc.updatedAt
                          ELSE IF Has(doc, "createdAt") THEN doc.createdAt
                          ELSE now)
        d1 == IF ~Has(doc, "logs") /\ Has(doc, "hours")
              THEN [logs |-> <<[date |-> dateSrc, hours |-> doc.hours]>>] @@ doc
              ELSE doc
    IN  IF Has(d1, "workItemId")
        THEN [workItemId |-> ToNumber(d1.workItemId)] @@ d1
        ELSE d1

(* -------------------------- setTimeEntry ------------------------------- *)
\* logs.findIndex(l => l.date === date), 0 when there is none (-1 in the code)
findIndex(logs, date) ==
    IF \E i \in 1..Len(logs) : logs[i].date = date
    THEN CHOOSE i \in 1..Len(logs) :
            logs[i].date = date /\ \A j \in 1..(i - 1) : logs[j].date # date
    ELSE 0

\* a plausible slip: the logs of the loaded record are not taken over
existingLogs_none(existingEntry) == << >>

\* line 93: a copy of the loaded record's logs, none without a record
existingLogs(existingEntry) ==
    IF existingEntry # Null /\ Has(existingEntry, "logs") THEN existingEntry.logs ELSE << >>

\* a plausible slip: the new entry is pushed without looking for the date
newLogs_push(existingEntry, entry) ==
    Append(existingLogs(existingEntry), [date |-> entry.date, hours |-> entry.hours])

\* a plausible slip: the date is found but its hours are not overwritten
newLogs_keep(existingEntry, entry) ==
    LET logs == existingLogs(existingEntry)
        logIdx == findIndex(logs, entry.date)
    IN  IF logIdx > 0 THEN logs
        ELSE Append(logs, [date |-> entry.date, hours |-> entry.hours])

newLogs(existingEntry, entry) ==
    LET logs == existingLogs(existingEntry)
        logIdx == findIndex(logs, entry.date)
    IN  IF logIdx > 0 THEN [logs EXCEPT ![logIdx].hours = entry.hours]
        ELSE Append(logs, [date |-> entry.date, hours |-> entry.hours])

\* a plausible slip: previousHours is read after the overwrite of line 99
previousHoursOf_after(existingEntry, entry) ==
    LET logs == existingLogs(existingEntry)
        logIdx == findIndex(logs, entry.date)
    IN  IF logIdx > 0 THEN entry.hours ELSE 0

previousHoursOf(existingEntry, entry) ==
    LET logs == existingLogs(existingEntry)
        logIdx == findIndex(logs, entry.date)
    IN  IF logIdx > 0 THEN logs[logIdx].hours ELSE 0

\* a plausible slip: the action does not look at the existing record
auditAction_created(existingEntry) == "created"

auditAction(existingEntry) == IF existingEntry # Null THEN "updated" ELSE "created"

auditEntryOf(existingEntry, entry, comment, now) ==
    LET logs == existingLogs(existingEntry)
        logIdx == findIndex(logs, entry.date)
        base == [timestamp |-> now,
                 userId |-> entry.userId,
                 userName |-> IF entry.userName # << >> THEN entry.userName ELSE entry.userId,
                 action |-> auditAction(existingEntry),
                 previousHours |-> previousHoursOf(existingEntry, entry),
                 newHours |-> IF logIdx > 0 THEN newLogs(existingEntry, entry)[logIdx].hours
                              ELSE entry.hours]
    IN  IF comment # << >> THEN [notes |-> comment] @@ base ELSE base

\* a plausible slip: the audit log is started afresh on every write
existingAuditLog_fresh(existingEntry) == << >>

existingAuditLog(existingEntry) ==
    IF existingEntry # Null /\ Has(existingEntry, "auditLog") THEN existingEntry.auditLog ELSE << >>

\* a plausible slip: createdAt is set on every write
createdAtOf_now(existingEntry, now) == now

createdAtOf(existingEntry, now) ==
    IF existingEntry # Null /\ Has(existingEntry, "createdAt") THEN existingEntry.createdAt ELSE now

\* a plausible slip: no event for a write that finds its date already logged
newAuditLog_skip(existingEntry, entry, comment, now) ==
    IF findIndex(existingLogs(existingEntry), entry.date) > 0
    THEN existingAuditLog(existingEntry)
    ELSE Append(existingAuditLog(existingEntry),
                auditEntryOf(existingEntry, entry, comment, now))

\* a plausible slip: no event when the hours do not change or are zero
newAuditLog_quiet(existingEntry, entry, comment, now) ==
    IF entry.hours = 0 \/ previousHoursOf(existingEntry, entry) = entry.hours
    THEN existingAuditLog(existingEntry)
    ELSE Append(existingAuditLog(existingEntry),
                auditEntryOf(existingEntry, entry, comment, now))

\* lines 115-117
newAuditLog(existingEntry, entry, comment, now) ==
    Append(existingAuditLog(existingEntry), auditEntryOf(existingEntry, entry, comment, now))

\* the store's "last write wins" token
ForceEtag == 0 - 1

\* a plausible slip: the write asks the store to overwrite whatever is there
existingEtag_force(existingEntry) == [etag |-> ForceEtag]

\* a plausible slip: the token of the loaded record is not sent back
existingEtag_none(existingEntry) == << >>

\* a plausible slip: the write carries the token it expects the store to
\* hold after the write
existingEtag_next(existingEntry) ==
    IF existingEntry # Null /\ Has(existingEntry, "etag") THEN [etag |-> existingEntry.etag + 1]
    ELSE << >>

\* the token the written document carries: none, or the one that was read
existingEtag(existingEntry) ==
    IF existingEntry # Null /\ Has(existingEntry, "etag") THEN [etag |-> existingEntry.etag]
    ELSE << >>

\* lines 122-129: the document without its token
timeEntryFields(existingEntry, entry, comment, id, now) ==
    [logs |-> newLogs(existingEntry, entry),
     id |-> id,
     createdAt |-> createdAtOf(existingEntry, now),
     updatedAt |-> now,
     auditLog |-> newAuditLog(existingEntry, entry, comment, now)] @@
    entry

\* a plausible slip: the token of the record is replaced by "last write wins"
\* when a record was read
buildTimeEntry_lastWins(existingEntry, entry, comment, id, now) ==
    (IF existingEntry # Null THEN [etag |-> ForceEtag] ELSE << >>) @@
    timeEntryFields(existingEntry, entry, comment, id, now)

\* lines 93-134: the document handed to setDocument
buildTimeEntry(existingEntry, entry, comment, id, now) ==
    existingEtag(existingEntry) @@ timeEntryFields(existingEntry, entry, comment, id, now)

(* --------------------------- document store ---------------------------- *)
\* setDocument's token check: a document without a token is accepted only
\* as a creation, a document with a token only when the token is current.
etagAccepted(store_, doc) ==
    IF ~Has(doc, "etag") THEN ~Has(store_, doc.id)
    ELSE IF doc.etag = ForceEtag THEN TRUE
    ELSE Has(store_, doc.id) /\ Has(store_[doc.id], "etag") /\ store_[doc.id].etag = doc.etag

nextEtag(store_, id) == IF Has(store_, id) /\ Has(store_[id], "etag") THEN store_[id].etag + 1 ELSE 1

putDocument(store_, doc) ==
    (doc.id :> ([etag |-> nextEtag(store_, doc.id)] @@ doc)) @@ store_

(* ------------------------------- settings ------------------------------ *)
SETTINGS_DOC_ID == <<"global-settings">>

\* hourIncrement 0.5, counted in quarters of an hour
DEFAULT_SETTINGS == [hourIncrement |-> 2]

\* lines 52-60: a failed or empty read gives the defaults
getSettings(settings_, failed) ==
    IF failed \/ ~Has(settings_, SETTINGS_DOC_ID) THEN DEFAULT_SETTINGS
    ELSE settings_[SETTINGS_DOC_ID] @@ DEFAULT_SETTINGS

\* a plausible slip: only the given keys are written, under the token read
newSettings_given(currentSettings, partial) ==
    [id |-> SETTINGS_DOC_ID] @@ partial @@
    [f \in DOMAIN currentSettings \cap {"etag"} |-> currentSettings[f]]

\* line 68: { ...currentSettings, ...settings, id: SETTINGS_DOC_ID }
newSettings(currentSettings, partial) ==
    [id |-> SETTINGS_DOC_ID] @@ partial @@ currentSettings

\* a stored settings document, written by an earlier version with one more key
StoredSettings ==
    (SETTINGS_DOC_ID :> [id |-> SETTINGS_DOC_ID, etag |-> 1, hourIncrement |-> 4,
                         theme |-> <<"d">>])

(* ------------------------------- state --------------------------------- *)
VARIABLES
    store,          \* collection "TimeEntries": document id -> document
    now,            \* the clock
    tabOf,          \* per call slot: the page (service instance) it belongs to
    pc,             \* per call slot: idle, read, write, done
    call,           \* per call slot: arguments and locals of setTimeEntry
    started,        \* number of setTimeEntry calls started
    hist,           \* per id: the (date, hours) of the successful writes
                    \* since the record did not exist; Null for a record
                    \* that predates the behaviour
    page,           \* the reports page: allEntries, flatLogs, the filter,
                    \* filteredLogs and the summary it shows
    ret,            \* the last outcome of a service call made on its own
    settings,       \* collection "TimeTrackerSettings": document id -> document
    ui              \* the time-entry page: its save button, its saveTime
                    \* calls, and the change signals under way in the browser

vars == <<store, now, tabOf, pc, call, started, hist, page, ret, settings, ui>>
serviceVars == <<store, now, tabOf, pc, call, started, hist>>

\* the reports page before init() has loaded anything
NoPage == [loaded |-> FALSE]

\* no time-entry page is open
NoUi == [open |-> FALSE]

StoreOf(legacy) ==
    LET ids == {generateId(Num(p[1]), p[2]) : p \in legacy}
    IN  [i \in ids |-> LET p == CHOOSE q \in legacy : generateId(Num(q[1]), q[2]) = i
                       IN  LegacyDoc(p[1], p[2])]

Init ==
    /\ \E legacy \in SUBSET (WorkItems \X LegacyUsers) : store = StoreOf(legacy)
    /\ now = 2
    /\ tabOf \in {f \in [Calls -> Tabs] : f[1] = 1}
    /\ pc = [c \in Calls |-> "idle"]
    /\ call = [c \in Calls |-> Null]
    /\ started = 0
    /\ hist = [i \in Ids |-> IF Has(store, i) THEN Null ELSE [writes |-> << >>]]
    /\ page = NoPage
    /\ ret = Null
    /\ settings = StoredSettings
    /\ ui = NoUi

(* ------------------------------ actions -------------------------------- *)
Entries ==
    {[workItemId |-> Num(w), userId |-> u, userName |-> userNameOf(u),
      hours |-> i[2], date |-> i[1]] : w \in WorkItems, u \in Users, i \in LogInputs}
CommentOf(entry) ==
    (CHOOSE i \in LogInputs : i[1] = entry.date /\ i[2] = entry.hours)[3]

\* lines 85-88: the call starts (in a slot that is free or whose call has
\* settled), id and now are computed; every call reads a later clock value
\* than the calls started before it
Begin(c) ==
    /\ pc[c] \in {"idle", "done"}
    /\ started < MaxCalls
    /\ \E entry \in Entries :
         call' = [call EXCEPT ![c] =
                [tab |-> tabOf[c], entry |-> entry, comment |-> CommentOf(entry),
                 id |-> generateId(entry.workItemId, entry.userId),
                 now |-> now, existingEntry |-> Null, loadFailed |-> FALSE,
                 cut |-> FALSE, cutOk |-> FALSE, result |-> "pending"]]
    /\ now' = now + 1
    /\ pc' = [pc EXCEPT ![c] = "read"]
    /\ started' = started + 1
    /\ UNCHANGED <<ui, settings, store, tabOf, hist, page, ret>>

\* lines 91, 151-165: getDocument resolves with the stored document
ReadFound(c) ==
    /\ pc[c] = "read"
    /\ Has(store, call[c].id)
    /\ call' = [call EXCEPT ![c].existingEntry = Normalize(store[call[c].id], now)]
    /\ pc' = [pc EXCEPT ![c] = "write"]
    /\ UNCHANGED <<ui, settings, store, now, tabOf, started, hist, page, ret>>

\* lines 91, 155, 166-168: no such document (the store rejects with 404 or
\* resolves with nothing): getTimeEntry returns null
ReadNotFound(c) ==
    /\ pc[c] = "read"
    /\ ~Has(store, call[c].id)
    /\ call' = [call EXCEPT ![c].existingEntry = Null]
    /\ pc' = [pc EXCEPT ![c] = "write"]
    /\ UNCHANGED <<ui, settings, store, now, tabOf, started, hist, page, ret>>

\* lines 91, 166-168: getDocument rejects (network, auth): the catch
\* clause turns the failure into null
ReadFail(c) ==
    /\ pc[c] = "read"
    /\ call' = [call EXCEPT ![c].existingEntry = Null, ![c].loadFailed = TRUE]
    /\ pc' = [pc EXCEPT ![c] = "write"]
    /\ UNCHANGED <<ui, settings, store, now, tabOf, started, hist, page, ret>>

timeEntryOf(c) ==
    buildTimeEntry(call[c].existingEntry, call[c].entry, call[c].comment,
                   call[c].id, call[c].now)

\* what remains of a call once its promise has settled
Settled(c, result) ==
    [tab |-> call[c].tab, id |-> call[c].id, loadFailed |-> call[c].loadFailed,
     cut |-> call[c].cut, cutOk |-> call[c].cutOk, result |-> result]

\* the other calls of the same service instance that have read and not
\* yet written see this call's store write happen inside their pair
CutOthers(c, ok) ==
    [d \in Calls |->
        IF d # c /\ pc[d] = "write" /\ call[d].tab = call[c].tab
        THEN [call[d] EXCEPT !.cut = TRUE,
                             !.cutOk = @ \/ (ok /\ call[d].id = call[c].id)]
        ELSE call[d]]

\* lines 93-137: the document is built and setDocument accepts it
WriteOk(c) ==
    /\ pc[c] = "write"
    /\ etagAccepted(store, timeEntryOf(c))
    /\ store' = putDocument(store, timeEntryOf(c))
    /\ call' = [CutOthers(c, TRUE) EXCEPT ![c] = Settled(c, "ok")]
    /\ pc' = [pc EXCEPT ![c] = "done"]
    /\ hist' = [hist EXCEPT ![call[c].id] =
                  IF @ = Null THEN Null
                  ELSE [writes |-> Append(@.writes, [date |-> call[c].entry.date,
                                                     hours |-> call[c].entry.hours])]]
    /\ UNCHANGED <<ui, settings, now, tabOf, started, page, ret>>

\* line 136: setDocument rejects the document because its token is not
\* the current one; the rejection propagates
WriteStale(c) ==
    /\ pc[c] = "write"
    /\ ~etagAccepted(store, timeEntryOf(c))
    /\ call' = [CutOthers(c, FALSE) EXCEPT ![c] = Settled(c, "StaleWrite")]
    /\ pc' = [pc EXCEPT ![c] = "done"]
    /\ UNCHANGED <<ui, settings, store, now, tabOf, started, hist, page, ret>>

\* line 136: setDocument rejects (network, auth); the rejection propagates
WriteFail(c) ==
    /\ pc[c] = "write"
    /\ call' = [CutOthers(c, FALSE) EXCEPT ![c] = Settled(c, "StoreUnavailable")]
    /\ pc' = [pc EXCEPT ![c] = "done"]
    /\ UNCHANGED <<ui, settings, store, now, tabOf, started, hist, page, ret>>

Next ==
    \E c \in Calls :
        \/ Begin(c)
        \/ ReadFound(c)
        \/ ReadNotFound(c)
        \/ ReadFail(c)
        \/ WriteOk(c)
        \/ WriteStale(c)
        \/ WriteFail(c)

Spec == Init /\ [][Next]_vars

(* ------------------------ generateId on its own ------------------------ *)
IdChars == {"1", "-", "a"}
IdUsers == UNION {[1..n -> IdChars] : n \in 0..MaxIdLen}
IdWorkItems == {1, 11, 42}

InitId ==
    /\ store = << >>
    /\ now = 2
    /\ tabOf = [c \in Calls |-> 1]
    /\ pc = [c \in Calls |-> "idle"]
    /\ call = [c \in Calls |-> Null]
    /\ started = 0
    /\ hist = [i \in Ids |-> [writes |-> << >>]]
    /\ page = NoPage
    /\ ret = Null
    /\ settings = StoredSettings
    /\ ui = NoUi

\* lines 45-47: the id of a pair, kept next to the pair and id of the
\* call before it
GenerateIds ==
    /\ \E w \in IdWorkItems, u \in IdUsers :
         LET id == generateId(Num(w), u)
         IN  ret' = [op |-> "generateId",
                     a |-> IF ret = Null THEN <<w, u>> ELSE ret.b,
                     ida |-> IF ret = Null THEN id ELSE ret.idb,
                     b |-> <<w, u>>,
                     idb |-> id]
    /\ UNCHANGED <<ui, settings, serviceVars, page>>

NextId == GenerateIds

SpecId == InitId /\ [][NextId]_vars

(* ----------------------- stored data for queries ------------------------ *)
QWorkItems == {7, 42}
QPairs == QWorkItems \X Users
\* work item 42 is a Bug, work item 7 has no type
typeOf(w) == IF w = 42 THEN <<"B">> ELSE << >>

\* the two work items are in different projects
projectOf(w) == IF w = 42 THEN <<"P">> ELSE <<"Q">>

QEntry(w, u, i) ==
    [workItemId |-> Num(w), userId |-> u, userName |-> userNameOf(u),
     workItemType |-> typeOf(w), projectId |-> projectOf(w), description |-> << >>, hours |-> i[2], date |-> i[1]]

Without(obj, field) == [f \in DOMAIN obj \ {field} |-> obj[f]]

\* the stored document after setTimeEntry calls with the inputs of h, one
\* after the other, for a pair without a record
RECURSIVE Written(_, _, _)
Written(w, u, h) ==
    IF h = << >> THEN Null
    ELSE LET prev == Written(w, u, SubSeq(h, 1, Len(h) - 1))
             existing == IF prev = Null THEN Null ELSE Normalize(prev, Len(h) + 1)
             i == h[Len(h)]
         IN  [etag |-> Len(h)] @@
             buildTimeEntry(existing, QEntry(w, u, i), i[3],
                            generateId(Num(w), u), Len(h) + 1)

\* the call sequences behind the stored multi-log records
QueryHistories(u) ==
    IF u \in LegacyUsers
    THEN {<<<<1, 3, << >>>>, <<2, 0, << >>>>>>}
    ELSE {<<<<1, 5, <<"c">>>>>>,
          <<<<1, 3, << >>>>, <<2, 0, << >>>>, <<1, 5, <<"c">>>>>>}

\* a legacy record that was updated the day after it was created
LegacyDocUpdated(w, u) == [LegacyDoc(w, u) EXCEPT !.updatedAt = 3]

\* a legacy record that has no updatedAt
LegacyDocCreatedOnly(w, u) == Without(LegacyDoc(w, u), "updatedAt")

StoredDocs(w, u) ==
    (IF u \in LegacyUsers THEN {LegacyDocUpdated(w, u), LegacyDocCreatedOnly(w, u)} ELSE {})
    \cup {Written(w, u, h) : h \in QueryHistories(u)}

QueryStores ==
    LET docs == UNION {StoredDocs(p[1], p[2]) : p \in QPairs}
        picks == {f \in [QPairs -> docs \cup {Null}] :
                    \A p \in QPairs : f[p] = Null \/ f[p] \in StoredDocs(p[1], p[2])}
    IN  {[id \in {generateId(Num(p[1]), p[2]) : p \in {q \in QPairs : f[q] # Null}} |->
            f[CHOOSE p \in QPairs : generateId(Num(p[1]), p[2]) = id]] : f \in picks}

(* --------------------------- bulk read paths --------------------------- *)
RECURSIVE SeqOf(_)
\* the documents of a collection in the order getDocuments returns them
SeqOf(S) ==
    IF S = {} THEN << >>
    ELSE LET x == CHOOSE y \in S : TRUE IN <<x>> \o SeqOf(S \ {x})

getDocuments(store_) == [k \in 1..Len(SeqOf(DOMAIN store_)) |-> store_[SeqOf(DOMAIN store_)[k]]]

\* a plausible slip: the date of the synthesized log is the creation date
normalizeDoc_created(doc, now_) ==
    LET dateSrc == DateOf(IF Has(doc, "createdAt") THEN doc.createdAt
                          ELSE IF Has(doc, "updatedAt") THEN doc.updatedAt
                          ELSE now_)
        d1 == IF ~Has(doc, "logs") /\ Has(doc, "hours")
              THEN [logs |-> <<[date |-> dateSrc, hours |-> doc.hours]>>] @@ doc
              ELSE doc
    IN  IF Has(d1, "workItemId")
        THEN [workItemId |-> ToNumber(d1.workItemId)] @@ d1
        ELSE d1

\* lines 204-213: the shim and the normalisation of the bulk path
normalizeDoc(doc, now_) ==
    LET dateSrc == DateOf(IF Has(doc, "updatedAt") THEN doc.updatedAt
                          ELSE IF Has(doc, "createdAt") THEN doc.createdAt
                          ELSE now_)
        d1 == IF ~Has(doc, "logs") /\ Has(doc, "hours")
              THEN [logs |-> <<[date |-> dateSrc, hours |-> doc.hours]>>] @@ doc
              ELSE doc
    IN  IF Has(d1, "workItemId")
        THEN [workItemId |-> ToNumber(d1.workItemId)] @@ d1
        ELSE d1

\* a plausible slip: a failed bulk read is passed on to the caller
getAllTimeEntries_rethrow(store_, failed, now_) ==
    IF failed THEN [rejected |-> TRUE, value |-> << >>]
    ELSE [rejected |-> FALSE,
          value |-> [k \in 1..Len(getDocuments(store_)) |->
                        normalizeDoc(getDocuments(store_)[k], now_)]]

\* lines 198-218: the outcome of getAllTimeEntries
getAllTimeEntries(store_, failed, now_) ==
    IF failed THEN [rejected |-> FALSE, value |-> << >>]
    ELSE [rejected |-> FALSE,
          value |-> [k \in 1..Len(getDocuments(store_)) |->
                        normalizeDoc(getDocuments(store_)[k], now_)]]

\* a plausible slip: the migrated records are written back on read
storeAfterRead_migrate(store_, now_) ==
    [id \in DOMAIN store_ |-> normalizeDoc(store_[id], now_)]

\* the collection after a read path has run: no read path calls
\* setDocument or deleteDocument
storeAfterRead(store_, now_) == store_

RECURSIVE SumHours(_)
\* logs.reduce((s, l) => s + l.hours, 0)
SumHours(logs) ==
    IF logs = << >> THEN 0
    ELSE logs[1].hours + SumHours(SubSeq(logs, 2, Len(logs)))

RECURSIVE SumEntries(_)
\* line 184: the reduce over the entries
SumEntries(entries) ==
    IF entries = << >> THEN 0
    ELSE (IF Has(entries[1], "logs") THEN SumHours(entries[1].logs) ELSE 0)
         + SumEntries(SubSeq(entries, 2, Len(entries)))

\* line 192: entry.workItemId === workItemId
SameWorkItem(entry, workItemId) ==
    Has(entry, "workItemId") /\ entry.workItemId = workItemId

\* a plausible slip: the entries of every work item are returned
getTimeEntriesForWorkItem_all(entries, workItemId) == entries

\* lines 190-193
getTimeEntriesForWorkItem(entries, workItemId) ==
    LET Keep(entry) == SameWorkItem(entry, workItemId)
    IN  SelectSeq(entries, Keep)

\* lines 182-185
getTotalHoursForWorkItem(store_, failed, now_, workItemId) ==
    SumEntries(getTimeEntriesForWorkItem(getAllTimeEntries(store_, failed, now_).value,
                                         workItemId))

(* ------------------------------ generateReport ------------------------- *)
EmptyRec == << >>

\* the first instant of a calendar date, as a timestamp
StartOfDay(date) == 2 * date - 1

\* lines 223-250: the predicate the filters of getFilteredTimeEntries make
keepEntry(e, filter) ==
    /\ Has(filter, "projectId") => (Has(e, "projectId") /\ e.projectId = filter.projectId)
    /\ Has(filter, "userId") => (Has(e, "userId") /\ e.userId = filter.userId)
    /\ Has(filter, "workItemType")
         => (Has(e, "workItemType") /\ e.workItemType = filter.workItemType)
    /\ Has(filter, "startDate")
         => (Has(e, "updatedAt") /\ e.updatedAt >= StartOfDay(filter.startDate))
    /\ Has(filter, "endDate")
         => (Has(e, "updatedAt") /\ e.updatedAt < StartOfDay(filter.endDate + 1))

getFilteredTimeEntries(entries, filter) ==
    LET Keep(e) == keepEntry(e, filter)
    IN  SelectSeq(entries, Keep)

Unknown == <<"U", "n", "k", "n", "o", "w", "n">>

\* x || y for strings: the empty and the absent string are falsy
OrElse(obj, field, other) ==
    IF Has(obj, field) /\ obj[field] # << >> THEN obj[field] ELSE other

\* map[key] = (map[key] || 0) + v
AddTo(map, key, v) ==
    (key :> ((IF key \in DOMAIN map THEN map[key] ELSE 0) + v)) @@ map

hoursOf(entry) == IF Has(entry, "logs") THEN SumHours(entry.logs) ELSE 0

\* lines 283-294: the work item map after one more entry
\* a plausible slip: every entry gets a row of its own
addWorkItem_append(rows, entry) ==
    Append(rows, [workItemId |-> entry.workItemId,
                  workItemTitle |-> OrElse(entry, "workItemTitle",
                                           <<"Work Item #">> \o ToStr(entry.workItemId)),
                  totalHours |-> hoursOf(entry)])

addWorkItem(rows, entry) ==
    IF \E k \in 1..Len(rows) : rows[k].workItemId = entry.workItemId
    THEN [k \in 1..Len(rows) |->
            IF rows[k].workItemId = entry.workItemId
            THEN [rows[k] EXCEPT !.totalHours = @ + hoursOf(entry)]
            ELSE rows[k]]
    ELSE Append(rows, [workItemId |-> entry.workItemId,
                       workItemTitle |-> OrElse(entry, "workItemTitle",
                                                <<"Work Item #">> \o ToStr(entry.workItemId)),
                       totalHours |-> hoursOf(entry)])

RECURSIVE reportOver(_, _)
\* lines 268-295: the loop over the entries
reportOver(entries, summary) ==
    IF entries = << >> THEN summary
    ELSE LET entry == entries[1]
         IN  reportOver(SubSeq(entries, 2, Len(entries)),
                 [summary EXCEPT
                    !.totalHours = @ + hoursOf(entry),
                    !.byUser = AddTo(@, OrElse(entry, "userName", entry.userId),
                                     hoursOf(entry)),
                    !.byWorkItemType = AddTo(@, OrElse(entry, "workItemType", Unknown),
                                             hoursOf(entry)),
                    !.byWorkItem = addWorkItem(@, entry)])

\* lines 255-300
generateReport(entries, filter) ==
    LET filtered == getFilteredTimeEntries(entries, filter)
    IN  reportOver(filtered,
                   [totalHours |-> 0, entriesCount |-> Len(filtered),
                    byUser |-> EmptyRec, byWorkItemType |-> EmptyRec, byWorkItem |-> << >>])

(* ----------------------------- reports page ---------------------------- *)
\* the properties of obj among fields, those that obj has
Pick(obj, fields) == [f \in DOMAIN obj \cap fields |-> obj[f]]

\* lines 122-133: the row of one log of one entry
flatLogOf(entry, log) ==
    [date |-> log.date, hours |-> log.hours] @@
    Pick(entry, {"workItemId", "workItemTitle", "workItemType", "projectId", "projectName",
                 "userId", "userName", "description"})

RECURSIVE rowsOf(_, _)
rowsOf(entry, logs) ==
    IF logs = << >> THEN << >>
    ELSE <<flatLogOf(entry, logs[1])>> \o rowsOf(entry, SubSeq(logs, 2, Len(logs)))

RECURSIVE flatten(_)
\* lines 118-136
flatten(entries) ==
    IF entries = << >> THEN << >>
    ELSE (IF Has(entries[1], "logs") /\ Len(entries[1].logs) > 0
          THEN rowsOf(entries[1], entries[1].logs)
          ELSE << >>)
         \o flatten(SubSeq(entries, 2, Len(entries)))

\* a plausible slip: the end of the range is exclusive
keepLog_exclusive(log, filter, workItemIdFilter) ==
    /\ ~(Has(filter, "startDate") /\ log.date < filter.startDate)
    /\ ~(Has(filter, "endDate") /\ log.date >= filter.endDate)
    /\ ~(Has(filter, "userId") /\ log.userId # filter.userId)
    /\ ~(Has(filter, "workItemType") /\ (~Has(log, "workItemType") \/ log.workItemType # filter.workItemType))
    /\ ~(Has(workItemIdFilter, "value") /\ ToStr(log.workItemId) # workItemIdFilter.value)

\* lines 261-278: the predicate of the filter
keepLog(log, filter, workItemIdFilter) ==
    /\ ~(Has(filter, "startDate") /\ log.date < filter.startDate)
    /\ ~(Has(filter, "endDate") /\ log.date > filter.endDate)
    /\ ~(Has(filter, "userId") /\ log.userId # filter.userId)
    /\ ~(Has(filter, "workItemType") /\ (~Has(log, "workItemType") \/ log.workItemType # filter.workItemType))
    /\ ~(Has(workItemIdFilter, "value") /\ ToStr(log.workItemId) # workItemIdFilter.value)

\* lines 319-330
updateSummary(flatLogs, filteredLogs) ==
    [totalHours |-> SumHours(filteredLogs),
     totalEntries |-> Len(filteredLogs),
     uniqueWorkItems |-> Cardinality({filteredLogs[k].workItemId : k \in 1..Len(filteredLogs)})]

\* hoursBy[key] = (hoursBy[key] || 0) + hours; the groups are kept in the
\* order in which their keys were first set
addHours(groups, key, hours) ==
    IF \E k \in 1..Len(groups) : groups[k].label = key
    THEN [k \in 1..Len(groups) |->
            IF groups[k].label = key
            THEN [groups[k] EXCEPT !.value = @ + hours]
            ELSE groups[k]]
    ELSE Append(groups, [label |-> key, value |-> hours])

\* a plausible slip: a row without display name goes to the group "Unknown"
userKeyOf_name(log) == OrElse(log, "userName", Unknown)

\* line 341: log.userName || log.userId || "Unknown"
userKeyOf(log) == OrElse(log, "userName", OrElse(log, "userId", Unknown))

\* line 342: log.workItemType || "Unknown"
typeKeyOf(log) == OrElse(log, "workItemType", Unknown)

RECURSIVE groupHours(_, _, _)
\* lines 340-345: the loop, for one of the two maps
groupHours(logs, keys, groups) ==
    IF logs = << >> THEN groups
    ELSE groupHours(SubSeq(logs, 2, Len(logs)), SubSeq(keys, 2, Len(keys)),
                    addHours(groups, keys[1], logs[1].hours))

\* lines 335-350: hoursByUser and hoursByType
renderCharts(filteredLogs) ==
    [hoursByUser |-> groupHours(filteredLogs,
                                [k \in 1..Len(filteredLogs) |-> userKeyOf(filteredLogs[k])],
                                << >>),
     hoursByType |-> groupHours(filteredLogs,
                                [k \in 1..Len(filteredLogs) |-> typeKeyOf(filteredLogs[k])],
                                << >>)]

\* a property name that is an array index ("7", "42"): Object.entries lists
\* these first, in ascending numeric order, before the other names
IsArrayIndex(label) == IsDigits(label) /\ (Len(label) = 1 \/ label[1] # "0")

RECURSIVE insertIndex(_, _)
\* entries, ascending by index, with one more entry
insertIndex(entries, e) ==
    IF entries = << >> THEN <<e>>
    ELSE IF ParseDigits(e.label) < ParseDigits(entries[1].label)
    THEN <<e>> \o entries
    ELSE <<entries[1]>> \o insertIndex(Tail(entries), e)

RECURSIVE indexEntries(_)
\* the entries whose name is an array index, ascending
indexEntries(groups) ==
    IF groups = << >> THEN << >>
    ELSE LET rest == indexEntries(SubSeq(groups, 1, Len(groups) - 1))
             e == groups[Len(groups)]
         IN  IF IsArrayIndex(e.label) THEN insertIndex(rest, e) ELSE rest

\* line 356: Object.entries(data); groups holds the properties of data in
\* the order in which they were set
ObjectEntries(groups) ==
    indexEntries(groups) \o SelectSeq(groups, LAMBDA e : ~IsArrayIndex(e.label))

RECURSIVE insertDesc(_, _)
\* sorted, descending by value, with one more entry after its equals
insertDesc(sorted, e) ==
    IF sorted = << >> THEN <<e>>
    ELSE IF e.value > sorted[1].value THEN <<e>> \o sorted
    ELSE <<sorted[1]>> \o insertDesc(Tail(sorted), e)

RECURSIVE sortDesc(_)
\* line 356: .sort((a, b) => b[1] - a[1]), a stable sort
sortDesc(entries) ==
    IF entries = << >> THEN << >>
    ELSE insertDesc(sortDesc(SubSeq(entries, 1, Len(entries) - 1)), entries[Len(entries)])

\* line 364: slice(0, 10)
TopN == 10

RECURSIVE maxValueOf(_)
\* line 362: Math.max over the values
maxValueOf(entries) ==
    IF Len(entries) = 1 THEN entries[1].value
    ELSE LET m == maxValueOf(Tail(entries))
         IN  IF entries[1].value > m THEN entries[1].value ELSE m

\* lines 355-376: the bars of a chart, each with its label, its value and
\* the width of its fill in percent
renderBarChart(data) ==
    LET entries == sortDesc(ObjectEntries(data))
    IN  IF Len(entries) = 0 THEN [empty |-> TRUE, bars |-> << >>]
        ELSE LET maxValue == maxValueOf(entries)
                 shown == SubSeq(entries, 1, IF Len(entries) < TopN THEN Len(entries) ELSE TopN)
             IN  [empty |-> FALSE,
                  bars |-> [k \in 1..Len(shown) |->
                              [label |-> shown[k].label, value |-> shown[k].value,
                               percentage |-> IF maxValue > 0
                                              THEN (shown[k].value * 100) \div maxValue
                                              ELSE 0]]]

\* lines 249-282: the page after applyFilters has read the form
applyFilters(allEntries, flatLogs, form) ==
    LET currentFilter == Pick(form, {"startDate", "endDate", "userId", "workItemType"})
        workItemIdFilter == IF Has(form, "workItemId") THEN [value |-> form.workItemId]
                            ELSE EmptyRec
        Keep(log) == keepLog(log, currentFilter, workItemIdFilter)
        filteredLogs == SelectSeq(flatLogs, Keep)
    IN  [loaded |-> TRUE, allEntries |-> allEntries, flatLogs |-> flatLogs, form |-> form,
         currentFilter |-> currentFilter, filteredLogs |-> filteredLogs,
         summary |-> updateSummary(flatLogs, filteredLogs)] @@ renderCharts(filteredLogs)

\* the values a user can give each input of the filter form
FormValues ==
    [startDate |-> {1, 2}, endDate |-> {1, 2}, userId |-> Users,
     workItemType |-> {<<"B">>},
     workItemId |-> {<<"4", "2">>, <<"7">>, <<"0", "7">>}]

\* the values a caller of generateReport can give each criterion
ReportValues ==
    [startDate |-> {1, 2}, endDate |-> {1, 2}, userId |-> Users,
     workItemType |-> {<<"B">>}, projectId |-> {<<"P">>}]

FormOf(pg) == IF pg.loaded THEN pg.form ELSE EmptyRec

InitQuery ==
    /\ store \in QueryStores
    /\ now = 4
    /\ tabOf = [c \in Calls |-> 1]
    /\ pc = [c \in Calls |-> "idle"]
    /\ call = [c \in Calls |-> Null]
    /\ started = 0
    /\ hist = [i \in Ids |-> Null]
    /\ page = NoPage
    /\ ret = Null
    /\ settings = StoredSettings
    /\ ui = NoUi

\* getAllTimeEntries called on its own
GetAllTimeEntries(failed) ==
    /\ ret' = [op |-> "getAllTimeEntries", failed |-> failed] @@
               getAllTimeEntries(store, failed, now)
    /\ store' = storeAfterRead(store, now)
    /\ UNCHANGED <<ui, settings, now, tabOf, pc, call, started, hist, page>>

GetTotalHours(w, failed) ==
    /\ ret' = [op |-> "getTotalHours", workItemId |-> w, failed |-> failed,
               value |-> getTotalHoursForWorkItem(store, failed, now, Num(w))]
    /\ store' = storeAfterRead(store, now)
    /\ UNCHANGED <<ui, settings, now, tabOf, pc, call, started, hist, page>>

\* getTimeEntryForWorkItem: the single-record read path
GetTimeEntryForWorkItem(w, u, failed) ==
    LET id == generateId(Num(w), u)
    IN  /\ ret' = [op |-> "getTimeEntry", id |-> id, failed |-> failed,
                   value |-> IF failed \/ id \notin DOMAIN store THEN Null
                             ELSE Normalize(store[id], now)]
        /\ store' = storeAfterRead(store, now)
        /\ UNCHANGED <<ui, settings, now, tabOf, pc, call, started, hist, page>>

\* generateReport called with the filter of the call before it, one
\* criterion set or cleared
GenerateReport(field, present, value, failed) ==
    LET last == IF Has(ret, "filter") THEN ret.filter ELSE EmptyRec
        filter == IF present THEN (field :> value) @@ last ELSE Without(last, field)
    IN  /\ ret' = [op |-> "generateReport", filter |-> filter, failed |-> failed,
                   value |-> generateReport(getAllTimeEntries(store, failed, now).value,
                                            filter)]
        /\ store' = storeAfterRead(store, now)
        /\ UNCHANGED <<ui, settings, now, tabOf, pc, call, started, hist, page>>

\* lines 301-314 (and the load of init): load, flatten, apply the form
refreshData(page_, store_, now_, failed) ==
    LET allEntries == getAllTimeEntries(store_, failed, now_).value
    IN  [loadFailed |-> failed] @@
        applyFilters(allEntries, flatten(allEntries), FormOf(page_))

RefreshData(failed) ==
    /\ page' = refreshData(page, store, now, failed)
    /\ store' = storeAfterRead(store, now)
    /\ UNCHANGED <<ui, settings, now, tabOf, pc, call, started, hist, ret>>

\* the user sets or clears one input of the form, and the form is applied
ApplyFilters(field, present, value) ==
    /\ page.loaded
    /\ LET form == IF present THEN (field :> value) @@ page.form
                    ELSE Without(page.form, field)
       IN  /\ form # page.form
           /\ page' = [loadFailed |-> page.loadFailed] @@
                       applyFilters(page.allEntries, page.flatLogs, form)
    /\ UNCHANGED <<ui, settings, serviceVars, ret>>

\* lines 287-296: the four inputs of currentFilter are cleared
ResetFilters ==
    /\ page.loaded
    /\ page' = [loadFailed |-> page.loadFailed] @@
                applyFilters(page.allEntries, page.flatLogs, Pick(page.form, {"workItemId"}))
    /\ UNCHANGED <<ui, settings, serviceVars, ret>>

NextQuery ==
    \/ \E failed \in BOOLEAN : GetAllTimeEntries(failed)
    \/ \E w \in QWorkItems, failed \in BOOLEAN : GetTotalHours(w, failed)
    \/ \E w \in QWorkItems, u \in Users, failed \in BOOLEAN :
          GetTimeEntryForWorkItem(w, u, failed)

SpecQuery == InitQuery /\ [][NextQuery]_vars

NextReport ==
    \E field \in DOMAIN ReportValues, present \in BOOLEAN, failed \in BOOLEAN :
        \E value \in ReportValues[field] : GenerateReport(field, present, value, failed)

SpecReport == InitQuery /\ [][NextReport]_vars

NextReports ==
    \/ \E failed \in BOOLEAN : RefreshData(failed)
    \/ \E field \in DOMAIN FormValues, present \in BOOLEAN :
          \E value \in FormValues[field] : ApplyFilters(field, present, value)
    \/ ResetFilters

SpecReports == InitQuery /\ [][NextReports]_vars

\* the readers of the collection: a caller of the service, whose last result
\* is ret, or the reports page; each is a frame of its own, and a behaviour
\* follows one of them
NextReadOnly ==
    \/ page = NoPage /\ (NextQuery \/ NextReport)
    \/ ret = Null /\ NextReports

SpecReadOnly == InitQuery /\ [][NextReadOnly]_vars

(* ------------------------------- CSV export ---------------------------- *)
Quote == "\""
Comma == ","
Newline == "\n"

RECURSIVE join(_, _)
\* parts.join(sep)
join(parts, sep) ==
    IF parts = << >> THEN << >>
    ELSE IF Len(parts) = 1 THEN parts[1]
    ELSE parts[1] \o <<sep>> \o join(SubSeq(parts, 2, Len(parts)), sep)

RECURSIVE doubleQuotes(_)
\* text.replace(/"/g, '""')
doubleQuotes(text) ==
    IF text = << >> THEN << >>
    ELSE (IF text[1] = Quote THEN <<Quote, Quote>> ELSE <<text[1]>>)
         \o doubleQuotes(SubSeq(text, 2, Len(text)))

quoted(text) == <<Quote>> \o doubleQuotes(text) \o <<Quote>>

\* part_001 line 418: the header of the page's export
pageHeader ==
    <<"Work Item", Comma, "Type", Comma, "Hours", Comma, "User", Comma,
      "Description", Comma, "Date">>

\* part_001 lines 421-428: the line of one row
pageLine(log) ==
    join(<<<<"#">> \o ToStr(log.workItemId),
           OrElse(log, "workItemType", <<"-">>),
           NumStr(log.hours),
           OrElse(log, "userName", OrElse(log, "userId", <<"-">>)),
           quoted(OrElse(log, "description", << >>)),
           NumStr(log.date)>>, Comma)

\* part_001 lines 411-430: the text of the page's export
pageExportToCSV(filteredLogs) ==
    join(<<pageHeader>> \o [k \in 1..Len(filteredLogs) |-> pageLine(filteredLogs[k])],
         Newline)

\* timeEntryService.ts line 306
serviceHeaders ==
    <<<<"Work Item ID">>, <<"Work Item Title">>, <<"Type">>, <<"Hours">>, <<"User">>,
      <<"Description">>, <<"Last Updated">>>>

\* timeEntryService.ts lines 307-315: the line of one entry
serviceLine(entry) ==
    join(<<ToStr(entry.workItemId),
           quoted(OrElse(entry, "workItemTitle", << >>)),
           OrElse(entry, "workItemType", << >>),
           NumStr(hoursOf(entry)),
           OrElse(entry, "userName", entry.userId),
           quoted(OrElse(entry, "description", << >>)),
           NumStr(entry.updatedAt)>>, Comma)

\* timeEntryService.ts lines 305-318
serviceExportToCSV(entries) ==
    join(<<join(serviceHeaders, Comma)>> \o [k \in 1..Len(entries) |-> serviceLine(entries[k])],
         Newline)

\* the characters a string field is made of
CsvChars == {"a", Comma, Quote, Newline}
CsvFields ==
    {<< >>} \cup {<<c>> : c \in CsvChars} \cup {<<"a", c, "b">> : c \in CsvChars \ {"a"}}
CsvFieldNames == {"workItemTitle", "workItemType", "userName", "description"}
PlainFields ==
    [workItemTitle |-> <<"a">>, workItemType |-> <<"a">>, userName |-> <<"a">>,
     description |-> <<"a">>]

\* the row or entry with the string fields f
CsvEntry(f) ==
    f @@ [workItemId |-> Num(42), userId |-> <<"u", "1">>, date |-> 1, hours |-> 3,
          logs |-> <<[date |-> 1, hours |-> 3]>>, updatedAt |-> 2]

\* a second row, of plain text
SecondEntry == CsvEntry(PlainFields)

CsvInput(f, two) == IF two THEN <<CsvEntry(f), SecondEntry>> ELSE <<CsvEntry(f)>>

\* an export after one string field of the input of the export before it
\* was changed
ExportPage(field, value, two) ==
    LET f == (field :> value) @@ (IF Has(ret, "fields") THEN ret.fields ELSE PlainFields)
    IN  /\ ret' = [op |-> "exportToCSV", path |-> "page", fields |-> f, two |-> two,
                   csv |-> pageExportToCSV(CsvInput(f, two))]
        /\ UNCHANGED <<ui, settings, serviceVars, page>>

ExportService(field, value, two) ==
    LET f == (field :> value) @@ (IF Has(ret, "fields") THEN ret.fields ELSE PlainFields)
    IN  /\ ret' = [op |-> "exportToCSV", path |-> "service", fields |-> f, two |-> two,
                   csv |-> serviceExportToCSV(CsvInput(f, two))]
        /\ UNCHANGED <<ui, settings, serviceVars, page>>

NextCsv ==
    \E field \in CsvFieldNames, value \in CsvFields, two \in BOOLEAN :
        \/ ExportPage(field, value, two)
        \/ ExportService(field, value, two)

SpecCsv == InitId /\ [][NextCsv]_vars

(* ---------------------------- settings store --------------------------- *)
\* the arguments of saveSettings: Partial<TimeTrackerSettings>
Partials == {EmptyRec, [hourIncrement |-> 1], [hourIncrement |-> 4]}

\* the collection at the start: empty, or one document with or without
\* hourIncrement, with or without a key of an earlier version
SettingsStores ==
    {EmptyRec, StoredSettings}
    \cup {(SETTINGS_DOC_ID :> Without(StoredSettings[SETTINGS_DOC_ID], k)) :
            k \in {"hourIncrement", "theme"}}

InitSettings ==
    /\ store = << >>
    /\ now = 2
    /\ tabOf = [c \in Calls |-> 1]
    /\ pc = [c \in Calls |-> "idle"]
    /\ call = [c \in Calls |-> Null]
    /\ started = 0
    /\ hist = [i \in Ids |-> [writes |-> << >>]]
    /\ page = NoPage
    /\ ret = Null
    /\ settings \in SettingsStores
    /\ ui = NoUi

\* line 65-66: saveSettings is called
BeginSave(c, partial) ==
    /\ pc[c] \in {"idle", "done"}
    /\ started < MaxCalls
    /\ call' = [call EXCEPT ![c] = [op |-> "saveSettings", partial |-> partial,
                                     result |-> "pending"]]
    /\ pc' = [pc EXCEPT ![c] = "readSettings"]
    /\ started' = started + 1
    /\ UNCHANGED <<ui, store, now, tabOf, hist, page, ret, settings>>

\* line 67: getSettings resolves, with the defaults when its read failed
ReadSettings(c, failed) ==
    /\ pc[c] = "readSettings"
    /\ call' = [call EXCEPT ![c] =
                 [currentSettings |-> getSettings(settings, failed)] @@ call[c]]
    /\ pc' = [pc EXCEPT ![c] = "writeSettings"]
    /\ UNCHANGED <<ui, store, now, tabOf, started, hist, page, ret, settings>>

settingsOf(c) == newSettings(call[c].currentSettings, call[c].partial)

\* lines 68-70: setDocument accepts the document
SaveOk(c) ==
    /\ pc[c] = "writeSettings"
    /\ etagAccepted(settings, settingsOf(c))
    /\ settings' = putDocument(settings, settingsOf(c))
    /\ ret' = [op |-> "saveSettings", partial |-> call[c].partial, before |-> settings,
               value |-> settingsOf(c)]
    /\ call' = [call EXCEPT ![c] = [op |-> "saveSettings", result |-> "ok"]]
    /\ pc' = [pc EXCEPT ![c] = "done"]
    /\ UNCHANGED <<ui, store, now, tabOf, started, hist, page>>

\* line 69: setDocument rejects the token
SaveStale(c) ==
    /\ pc[c] = "writeSettings"
    /\ ~etagAccepted(settings, settingsOf(c))
    /\ call' = [call EXCEPT ![c] = [op |-> "saveSettings", result |-> "StaleWrite"]]
    /\ pc' = [pc EXCEPT ![c] = "done"]
    /\ UNCHANGED <<ui, store, now, tabOf, started, hist, page, ret, settings>>

\* line 69: the store cannot be reached
SaveFail(c) ==
    /\ pc[c] = "writeSettings"
    /\ call' = [call EXCEPT ![c] = [op |-> "saveSettings", result |-> "StoreUnavailable"]]
    /\ pc' = [pc EXCEPT ![c] = "done"]
    /\ UNCHANGED <<ui, store, now, tabOf, started, hist, page, ret, settings>>

\* lines 52-60: getSettings called on its own
GetSettings(failed) ==
    /\ ret' = [op |-> "getSettings", failed |-> failed, value |-> getSettings(settings, failed)]
    /\ UNCHANGED <<ui, serviceVars, page, settings>>

NextSettings ==
    \/ \E c \in Calls :
          \/ \E partial \in Partials : BeginSave(c, partial)
          \/ \E failed \in BOOLEAN : ReadSettings(c, failed)
          \/ SaveOk(c)
          \/ SaveStale(c)
          \/ SaveFail(c)
    \/ \E failed \in BOOLEAN : GetSettings(failed)

SpecSettings == InitSettings /\ [][NextSettings]_vars

(* ---------------------------- single writer ---------------------------- *)
\* a call is started only when no other call is in flight: one page, which
\* awaits each setTimeEntry before it starts the next
SingleBegin(c) ==
    /\ \A d \in Calls : pc[d] \in {"idle", "done"}
    /\ Begin(c)

\* line 136 with a store that is up: setDocument resolves when the token of
\* the document is acceptable and rejects it as stale otherwise
SingleWrite(c) ==
    /\ pc[c] = "write"
    /\ IF etagAccepted(store, timeEntryOf(c)) THEN WriteOk(c) ELSE WriteStale(c)

\* the store answers every request it was sent
SingleStep(c) ==
    \/ ReadFound(c)
    \/ ReadNotFound(c)
    \/ SingleWrite(c)

NextSingle ==
    \E c \in Calls :
        \/ SingleBegin(c)
        \/ SingleStep(c)

\* store calls either resolve or reject: a pending request is answered
SpecSingle == Init /\ [][NextSingle]_vars /\ WF_vars(\E c \in Calls : SingleStep(c))

(* ------------------- the store with other records ---------------------- *)
\* the collection also holds the records of another work item, one of
\* them for the same user, and user u1's legacy record for work item 42
OtherRecords ==
    LET a == LegacyDocUpdated(7, <<"u", "1">>)
        b == Written(7, <<"u", "2">>, <<<<1, 5, <<"c">>>>>>)
    IN  (a.id :> a) @@ (b.id :> b)

InitFrame ==
    /\ store = StoreOf(WorkItems \X LegacyUsers) @@ OtherRecords
    /\ now = 2
    /\ tabOf = [c \in Calls |-> c]
    /\ pc = [c \in Calls |-> "idle"]
    /\ call = [c \in Calls |-> Null]
    /\ started = 0
    /\ hist = [i \in Ids |-> IF Has(store, i) THEN Null ELSE [writes |-> << >>]]
    /\ page = NoPage
    /\ ret = Null
    /\ settings = StoredSettings
    /\ ui = NoUi

SpecFrame == InitFrame /\ [][Next]_vars

(* ------------------------- a chart on its own -------------------------- *)
\* the names of the groups of a chart, in the order in which the rows bring
\* them up: user names or types, some of which are numbers
ChartLabels ==
    {<<<<"a">>, <<"b">>, <<"c">>, <<"d">>, <<"e">>, <<"f">>,
       <<"g">>, <<"h">>, <<"i">>, <<"j">>, <<"k">>, <<"l">>>>,
     <<<<"b">>, <<"7">>, <<"a">>, <<"4", "2">>, <<"0", "7">>, <<"f">>,
       <<"g">>, <<"h">>, <<"i">>, <<"j">>, <<"k">>, <<"5">>>>}
ChartHours == {1, 2}

InitChart ==
    /\ store = << >>
    /\ now = 2
    /\ tabOf = [c \in Calls |-> 1]
    /\ pc = [c \in Calls |-> "idle"]
    /\ call = [c \in Calls |-> Null]
    /\ started = 0
    /\ hist = [i \in Ids |-> [writes |-> << >>]]
    /\ page = NoPage
    /\ \E labels \in ChartLabels :
         ret = [op |-> "renderBarChart", labels |-> labels, data |-> << >>,
                chart |-> renderBarChart(<< >>)]
    /\ settings = StoredSettings
    /\ ui = NoUi

\* lines 340-349: a row with a user (or type) that has no group yet adds
\* the group, and the chart is rendered from the groups
RenderChart(hours) ==
    /\ Has(ret, "op") /\ ret.op = "renderBarChart"
    /\ Len(ret.data) < Len(ret.labels)
    /\ LET data == addHours(ret.data, ret.labels[Len(ret.data) + 1], hours)
       IN  ret' = [ret EXCEPT !.data = data, !.chart = renderBarChart(data)]
    /\ UNCHANGED <<ui, settings, serviceVars, page>>

NextChart == \E hours \in ChartHours : RenderChart(hours)

SpecChart == InitChart /\ [][NextChart]_vars

(* --------------------------- time-entry page --------------------------- *)
\* the hours the user may have in the input when Save is clicked
PageHours == {1, 2}

\* overview.md lines 129-151: the user and the work item of the page; a
\* second tab of the same browser shows the same work item to the same user
PageUser == <<"u", "1">>
PageWorkItem == 42

\* the time-entry page of tab 1 once init() is through (overview.md lines
\* 106-166), the reports page once it has loaded, no signal under way;
\* bc tells whether the browser has BroadcastChannel
InitPage ==
    /\ store = << >>
    /\ now = 2
    /\ tabOf = [c \in Calls |-> 1]
    /\ pc = [c \in Calls |-> "idle"]
    /\ call = [c \in Calls |-> Null]
    /\ started = 0
    /\ hist = [i \in Ids |-> IF Has(store, i) THEN Null ELSE [writes |-> << >>]]
    /\ page = refreshData(NoPage, store, now, FALSE)
    /\ ret = Null
    /\ settings = StoredSettings
    /\ \E bc \in BOOLEAN :
         ui = [open |-> TRUE, bc |-> bc, disabled |-> FALSE,
               phase |-> [c \in Calls |-> "none"],
               messages |-> 0, loads |-> 0, timers |-> 0,
               storageEvents |-> 0, reportTimers |-> 0, unseen |-> FALSE]

\* overview.md lines 419-433: the entry saveTime hands to setTimeEntry
pageEntry(hours, today) ==
    [workItemId |-> Num(PageWorkItem), workItemType |-> typeOf(PageWorkItem),
     projectId |-> projectOf(PageWorkItem), description |-> << >>,
     userId |-> PageUser, userName |-> userNameOf(PageUser),
     hours |-> hours, date |-> today]

\* a slot is free when no saveTime call is using it
FreeSlot(c) == pc[c] \in {"idle", "done"} /\ ui.phase[c] = "none"

\* a saveTime call of tab t enters setTimeEntry (lines 85-88) in slot c,
\* the first free one
startSetTimeEntry(c, t, hours) ==
    /\ FreeSlot(c)
    /\ \A d \in 1..(c - 1) : ~FreeSlot(d)
    /\ started < MaxCalls
    /\ call' = [call EXCEPT ![c] =
           [tab |-> t, entry |-> pageEntry(hours, DateOf(now)), comment |-> << >>,
            id |-> generateId(Num(PageWorkItem), PageUser),
            now |-> now, existingEntry |-> Null, loadFailed |-> FALSE,
            cut |-> FALSE, cutOk |-> FALSE, result |-> "pending"]]
    /\ tabOf' = [tabOf EXCEPT ![c] = t]
    /\ now' = now + 1
    /\ pc' = [pc EXCEPT ![c] = "read"]
    /\ started' = started + 1
    /\ UNCHANGED <<store, hist, page, ret, settings>>

\* overview.md lines 410-434: the click on Save in tab 1; a disabled
\* button takes no click
Click(c, hours) ==
    /\ ~ui.disabled
    /\ startSetTimeEntry(c, 1, hours)
    /\ ui' = [ui EXCEPT !.disabled = TRUE, !.phase[c] = "setEntry"]

\* the same click in the other tab, whose button is not followed
OtherTabClick(c, hours) ==
    /\ startSetTimeEntry(c, 2, hours)
    /\ ui' = [ui EXCEPT !.phase[c] = "setEntry"]

\* overview.md lines 435-441: setTimeEntry rejected; the button is enabled
SaveRejected(c) ==
    /\ ui.phase[c] = "setEntry"
    /\ pc[c] = "done"
    /\ call[c].result # "ok"
    /\ ui' = [ui EXCEPT !.phase[c] = "none",
                        !.disabled = IF call[c].tab = 1 THEN FALSE ELSE @]
    /\ UNCHANGED <<store, now, tabOf, pc, call, started, hist, page, ret, settings>>

\* overview.md lines 420, 444-445: setTimeEntry resolved; saveTime goes on
\* to loadTimeEntry
SaveResolved(c) ==
    /\ ui.phase[c] = "setEntry"
    /\ pc[c] = "done"
    /\ call[c].result = "ok"
    /\ ui' = [ui EXCEPT !.phase[c] = "reload", !.unseen = TRUE]
    /\ UNCHANGED <<store, now, tabOf, pc, call, started, hist, page, ret, settings>>

\* overview.md lines 458-468: the change signal of a page of tab t. With
\* BroadcastChannel it reaches the other channel objects of that name,
\* the listener of tab 1 among them; without it the storage key is set,
\* which raises a storage event in the other windows
notified(u, t) ==
    IF u.bc THEN [u EXCEPT !.messages = @ + 1]
    ELSE [u EXCEPT !.storageEvents = @ + 1,
                   !.messages = IF t = 1 THEN @ ELSE @ + 1]

\* overview.md lines 444-474 with 236-239 and 297-298: loadTimeEntry has
\* resolved and has enabled the button; the signal is sent and the timer
\* that enables the button once more is set
SaveFinished(c) ==
    /\ ui.phase[c] = "reload"
    /\ ui' = LET u == notified([ui EXCEPT !.phase[c] = "none"], call[c].tab)
             IN  IF call[c].tab = 1
                 THEN [u EXCEPT !.disabled = FALSE, !.timers = @ + 1]
                 ELSE u
    /\ store' = storeAfterRead(store, now)
    /\ UNCHANGED <<now, tabOf, pc, call, started, hist, page, ret, settings>>

\* overview.md lines 471-474: the timer set by saveTime fires
TimerFires ==
    /\ ui.timers > 0
    /\ ui' = [ui EXCEPT !.timers = @ - 1, !.disabled = FALSE]
    /\ UNCHANGED <<store, now, tabOf, pc, call, started, hist, page, ret, settings>>

\* overview.md lines 573-593: the listener of tab 1 takes a signal (a
\* message of the channel, or a storage event where there is no channel)
\* and calls loadTimeEntry
RemoteUpdate ==
    /\ ui.messages > 0
    /\ ui' = [ui EXCEPT !.messages = @ - 1, !.loads = @ + 1]
    /\ UNCHANGED <<store, now, tabOf, pc, call, started, hist, page, ret, settings>>

\* overview.md lines 179-264, 270-302: a loadTimeEntry started by the
\* listener resolves: the input and the button are enabled
LoadTimeEntry ==
    /\ ui.loads > 0
    /\ ui' = [ui EXCEPT !.loads = @ - 1, !.disabled = FALSE]
    /\ store' = storeAfterRead(store, now)
    /\ UNCHANGED <<now, tabOf, pc, call, started, hist, page, ret, settings>>

\* part_001 lines 200-204: the reports page takes a storage event for the
\* key and sets the timer for refreshData
ReportsStorageEvent ==
    /\ ui.storageEvents > 0
    /\ ui' = [ui EXCEPT !.storageEvents = @ - 1, !.reportTimers = @ + 1]
    /\ UNCHANGED <<store, now, tabOf, pc, call, started, hist, page, ret, settings>>

\* part_001 lines 202, 301-314: the timer fires and refreshData reloads
ReportsRefresh ==
    /\ ui.reportTimers > 0
    /\ ui' = [ui EXCEPT !.reportTimers = @ - 1, !.unseen = FALSE]
    /\ page' = refreshData(page, store, now, FALSE)
    /\ store' = storeAfterRead(store, now)
    /\ UNCHANGED <<now, tabOf, pc, call, started, hist, ret, settings>>

\* what the store, the event loop and the timers do for the time-entry
\* pages on their own
SaveProgress ==
    \/ \E c \in Calls :
          \/ ReadFound(c)
          \/ ReadNotFound(c)
          \/ WriteOk(c)
          \/ WriteStale(c)
          \/ SaveRejected(c)
          \/ SaveResolved(c)
          \/ SaveFinished(c)
    \/ TimerFires
    \/ RemoteUpdate
    \/ LoadTimeEntry

\* the time-entry page of tab 1 and the same page in another tab
NextSave ==
    \/ \E c \in Calls, hours \in PageHours : Click(c, hours)
    \/ \E c \in Calls, hours \in PageHours : OtherTabClick(c, hours)
    \/ SaveProgress

SpecSave == InitPage /\ [][NextSave]_vars

\* and what the event loop and the timer do for the reports page
SignalProgress ==
    \/ SaveProgress
    \/ ReportsStorageEvent
    \/ ReportsRefresh

\* the time-entry page of tab 1 and the reports page
NextSignal ==
    \/ \E c \in Calls, hours \in PageHours : Click(c, hours)
    \/ SignalProgress

\* store calls resolve or reject, queued events are dispatched and timers
\* fire; nobody has to click
SpecSignal == InitPage /\ [][NextSignal]_vars /\ WF_vars(SignalProgress)

(* ------------------------------ properties ----------------------------- *)
\* the stored record as a read returns it, Null when there is none
Stored(id) == IF Has(store, id) THEN Normalize(store[id], now) ELSE Null

\* the write step of call c, and the step in which the store accepts it
Wrote(c) == pc[c] = "write" /\ pc'[c] = "done"
WroteOk(c) == Wrote(c) /\ call'[c].result = "ok"

\* the logs and the audit events of a record, none for Null or when the
\* record has no such property
LogsOf(doc) == IF Has(doc, "logs") THEN doc.logs ELSE << >>
AuditLogOf(doc) == IF Has(doc, "auditLog") THEN doc.auditLog ELSE << >>

LastOf(seq) == seq[Len(seq)]
IsPrefix(s, t) == Len(s) <= Len(t) /\ SubSeq(t, 1, Len(s)) = s
DatesOf(logs) == {logs[i].date : i \in 1..Len(logs)}

\* the hours logged for a date, 0 when the date has no log
HoursOn(logs, date) ==
    IF date \in DatesOf(logs)
    THEN logs[CHOOSE i \in 1..Len(logs) : logs[i].date = date].hours
    ELSE 0

\* the hours of the latest write for a date in a history of writes
LatestHours(writes, date) ==
    writes[CHOOSE i \in 1..Len(writes) :
              /\ writes[i].date = date
              /\ \A j \in (i + 1)..Len(writes) : writes[j].date # date].hours

C2_NoLostUpdate ==
    [][\A c \in Calls :
          WroteOk(c) =>
              /\ call[c].existingEntry = Stored(call[c].id)
              /\ IsPrefix(AuditLogOf(Stored(call[c].id)),
                          store'[call[c].id].auditLog)
              /\ DatesOf(LogsOf(Stored(call[c].id)))
                    \subseteq DatesOf(store'[call[c].id].logs)]_vars

\* two calls from different pages for the same record have settled, one
\* accepted and the other rejected for its stale token
C2_Witness ==
    \E c, d \in Calls :
        /\ tabOf[c] # tabOf[d]
        /\ pc[c] = "done" /\ pc[d] = "done"
        /\ call[c].id = call[d].id
        /\ call[c].result = "ok" /\ ~call[c].loadFailed
        /\ call[d].result = "StaleWrite" /\ ~call[d].loadFailed

\* C3: a setTimeEntry write on a record that exists either is rejected and
\* leaves the store as it is, or stores the previous auditLog unchanged
\* followed by exactly one new event.
C3_AuditAppendOnly ==
    [][\A c \in Calls :
          (Wrote(c) /\ Has(store, call[c].id)) =>
              IF call'[c].result = "ok"
              THEN LET old == AuditLogOf(store[call[c].id])
                       new == store'[call[c].id].auditLog
                   IN  Len(new) = Len(old) + 1 /\ SubSeq(new, 1, Len(old)) = old
              ELSE store' = store]_vars

\* a record that existed has been written again
C3_Witness ==
    \E c \in Calls :
        /\ pc[c] = "done" /\ call[c].result = "ok"
        /\ Len(store[call[c].id].auditLog) >= 2

\* C4: after N accepted setTimeEntry calls for a pair that had no record,
\* the stored auditLog has N events.
C4_AuditLength ==
    \A id \in Ids :
        hist[id] # Null =>
            IF Has(store, id) THEN Len(store[id].auditLog) = Len(hist[id].writes)
            ELSE hist[id].writes = << >>

\* three accepted calls, two of them for the same date
C4_Witness ==
    \E id \in DOMAIN store :
        /\ hist[id] # Null
        /\ Len(hist[id].writes) = 3
        /\ Cardinality(DatesOf(hist[id].writes)) < 3

C6_AuditHours ==
    [][\A c \in Calls :
          WroteOk(c) =>
              LET event == LastOf(store'[call[c].id].auditLog)
              IN  /\ event.newHours = call[c].entry.hours
                  /\ event.previousHours =
                        HoursOn(LogsOf(Stored(call[c].id)), call[c].entry.date)]_vars

\* the same date was written with 3 and then with 5
C6_Witness ==
    \E id \in DOMAIN store :
        /\ hist[id] # Null
        /\ Len(hist[id].writes) >= 2
        /\ LastOf(store[id].auditLog).previousHours = 3
        /\ LastOf(store[id].auditLog).newHours = 5

\* C7: the accepted write for a pair without a record appends a "created"
\* event, an accepted write for a pair with a record an "updated" one.
C7_AuditAction ==
    [][\A c \in Calls :
          WroteOk(c) =>
              LastOf(store'[call[c].id].auditLog).action =
                  IF Has(store, call[c].id) THEN "updated" ELSE "created"]_vars

\* a record that was created and then updated twice
C7_Witness ==
    \E id \in DOMAIN store :
        /\ hist[id] # Null
        /\ Len(store[id].auditLog) = 3
        /\ store[id].auditLog[1].action = "created"
        /\ store[id].auditLog[2].action = "updated"
        /\ store[id].auditLog[3].action = "updated"

\* C8: an accepted write stores the createdAt the record had before (the
\* time of the call when there was no record) and the time of the call
\* as updatedAt.
C8_Timestamps ==
    [][\A c \in Calls :
          WroteOk(c) =>
              /\ store'[call[c].id].updatedAt = call[c].now
              /\ store'[call[c].id].createdAt =
                    IF Has(store, call[c].id) THEN store[call[c].id].createdAt
                    ELSE call[c].now]_vars

\* a record created by one call and written by a later one
C8_Witness ==
    \E id \in DOMAIN store :
        /\ hist[id] # Null
        /\ Len(hist[id].writes) >= 2
        /\ store[id].createdAt < store[id].updatedAt

\* C9: a call whose load of the existing record failed in the store does
\* not end successfully (the failure reaches the caller).
C9_LoadFailureSurfaces ==
    \A c \in Calls :
        (pc[c] = "done" /\ call[c].loadFailed) => call[c].result # "ok"

\* C10 as stated: no call of a service instance has another call's store
\* write between its own read and write.
C10_NoInterleaving ==
    \A c \in Calls : pc[c] = "done" => ~call[c].cut

\* C10 as amended: when another call of the same service instance has its
\* write of the same record accepted between a call's read and write, the
\* later write is not accepted.
C10_InterleavedWriteRejected ==
    \A c \in Calls :
        (pc[c] = "done" /\ call[c].cutOk) => call[c].result # "ok"

\* read(A), read(B), write(A) accepted, write(B) rejected as stale, A and B
\* calls of one page for one record
C10_Witness ==
    \E c, d \in Calls :
        /\ c # d /\ tabOf[c] = tabOf[d]
        /\ pc[c] = "done" /\ pc[d] = "done"
        /\ call[c].id = call[d].id
        /\ call[c].result = "ok"
        /\ call[d].cutOk /\ call[d].result = "StaleWrite"

\* C11: an accepted setTimeEntry call changes one document, by one write
\* (the store's version of the record advances by one), and the stored
\* auditLog grows by one event, also for a write of the hours already
\* stored and for a write of zero hours.
C11_OneWriteOneEvent ==
    [][\A c \in Calls :
          WroteOk(c) =>
              LET id == call[c].id
              IN  /\ \A other \in DOMAIN store \ {id} :
                        Has(store', other) /\ store'[other] = store[other]
                  /\ DOMAIN store' = DOMAIN store \cup {id}
                  /\ store'[id].etag = (IF Has(store, id) THEN store[id].etag + 1 ELSE 1)
                  /\ Len(store'[id].auditLog) = Len(AuditLogOf(Stored(id))) + 1]_vars

\* the same hours were written twice for one date, then zero hours
C11_Witness ==
    \E id \in DOMAIN store :
        /\ hist[id] # Null
        /\ Len(hist[id].writes) = 3
        /\ hist[id].writes[1] = hist[id].writes[2]
        /\ hist[id].writes[3].hours = 0
        /\ Len(store[id].auditLog) = 3

\* C12: the document a call hands to setDocument carries the token of the
\* record its read returned, and none when the read returned no record.
C12_TokenCarried ==
    [][\A c \in Calls :
          (pc[c] = "read" /\ pc'[c] = "write") =>
              LET doc == buildTimeEntry(call'[c].existingEntry, call'[c].entry,
                                        call'[c].comment, call'[c].id, call'[c].now)
              IN  IF Has(store, call[c].id) /\ ~call'[c].loadFailed
                  THEN Has(doc, "etag") /\ doc.etag = store[call[c].id].etag
                  ELSE ~Has(doc, "etag")]_vars

\* a call has read a record that the store has versioned twice and is
\* about to write it back
C12_Witness ==
    \E c \in Calls :
        /\ pc[c] = "write"
        /\ call[c].existingEntry # Null
        /\ call[c].existingEntry.etag = 2
        /\ Has(timeEntryOf(c), "etag")

\* C13: two (workItemId, userId) pairs with the same record id are the
\* same pair.
C13_IdInjective ==
    (ret # Null /\ ret.op = "generateId") => (ret.ida = ret.idb => ret.a = ret.b)

\* two users of one work item, the id of one a prefix-like variant of the
\* other, get two ids
C13_Witness ==
    /\ ret # Null /\ ret.op = "generateId"
    /\ ret.a[1] = ret.b[1]
    /\ ret.a[2] = <<"a">> /\ ret.b[2] = <<"a", "-">>
    /\ ret.ida # ret.idb

(* --- queries --- *)
\* the logs a stored record stands for: its logs, or the one value of a
\* record of the old shape
StoredLogs(doc) ==
    IF Has(doc, "logs") THEN doc.logs
    ELSE IF Has(doc, "hours")
    THEN <<[date |-> DateOf(IF Has(doc, "updatedAt") THEN doc.updatedAt ELSE doc.createdAt),
            hours |-> doc.hours]>>
    ELSE << >>

\* the work item of a stored record, as a number
WorkItemOf(doc) ==
    IF Has(doc.workItemId, "num") THEN doc.workItemId.num ELSE ParseDigits(doc.workItemId.str)

RECURSIVE HoursOfLogs(_)
HoursOfLogs(logs) == IF logs = << >> THEN 0 ELSE logs[1].hours + HoursOfLogs(Tail(logs))

RECURSIVE TotalOver(_, _)
\* the hours of all logs of the records S that belong to work item w
TotalOver(S, w) ==
    IF S = {} THEN 0
    ELSE LET id == CHOOSE x \in S : TRUE
         IN  (IF WorkItemOf(store[id]) = w THEN HoursOfLogs(StoredLogs(store[id])) ELSE 0)
             + TotalOver(S \ {id}, w)

Returned(op) == Has(ret, "op") /\ ret.op = op

\* C14: getTotalHours(workItemId), when its bulk read succeeds, returns the
\* sum of the hours of all logs of all stored records of that work item, of
\* every user, and of no other work item.
C14_TotalHours ==
    (Returned("getTotalHours") /\ ~ret.failed)
        => ret.value = TotalOver(DOMAIN store, ret.workItemId)

\* a total over two users' records, one of the old shape, beside a record
\* of another work item
C14_Witness ==
    /\ Returned("getTotalHours") /\ ~ret.failed /\ ret.workItemId = 42
    /\ \A u \in Users : generateId(Num(42), u) \in DOMAIN store
    /\ ~Has(store[generateId(Num(42), <<"u", "1">>)], "logs")
    /\ \E id \in DOMAIN store : WorkItemOf(store[id]) = 7 /\ HoursOfLogs(StoredLogs(store[id])) > 0
    /\ ret.value = 8

\* C15: when the bulk read of the store fails, getAllTimeEntries resolves
\* with the empty sequence and raises no error to its caller.
C15_FailsSoft ==
    (Returned("getAllTimeEntries") /\ ret.failed)
        => (~ret.rejected /\ ret.value = << >>)

\* a failed bulk read over a collection that holds records
C15_Witness ==
    /\ Returned("getAllTimeEntries") /\ ret.failed
    /\ DOMAIN store # {}
    /\ ret.value = << >>

\* C16: no query or summary operation (the bulk load, flatten, filter,
\* the summaries, getTotalHours) creates, changes or deletes a stored
\* document, also when the loaded record is one the shim migrates.
C16_ReadOnly == [][store' = store]_vars

\* the page holds a migrated record whose stored document is still of the
\* old shape
C16_Witness ==
    /\ page.loaded
    /\ \E id \in DOMAIN store :
         /\ ~Has(store[id], "logs")
         /\ \E k \in 1..Len(page.allEntries) :
              page.allEntries[k].id = id /\ Has(page.allEntries[k], "logs")

\* C17: the shim is idempotent: applied once more, at a later time, to a
\* record that a read has returned, it gives the identical record, on the
\* single-record path and on the bulk path, and a stored record that has
\* logs keeps them.
C17_ShimIdempotent ==
    /\ (Returned("getTimeEntry") /\ ret.value # Null)
         => /\ Normalize(ret.value, now + 1) = ret.value
            /\ normalizeDoc(ret.value, now + 1) = ret.value
            /\ Has(store[ret.id], "logs") => ret.value.logs = store[ret.id].logs
    /\ Returned("getAllTimeEntries")
         => \A k \in 1..Len(ret.value) :
              /\ normalizeDoc(ret.value[k], now + 1) = ret.value[k]
              /\ Normalize(ret.value[k], now + 1) = ret.value[k]
              /\ Has(store[ret.value[k].id], "logs")
                   => ret.value[k].logs = store[ret.value[k].id].logs

\* a single read has migrated a record of the old shape, and a bulk read
\* could return one that setTimeEntry wrote with its scalar hours
C17_Witness ==
    /\ Returned("getTimeEntry") /\ ret.value # Null
    /\ ~Has(store[ret.id], "logs") /\ Has(ret.value, "logs")
    /\ \E id \in DOMAIN store : Has(store[id], "logs") /\ Has(store[id], "hours")

\* what the shim is to make of a stored document
ShimOf(doc, loaded) ==
    /\ Without(Without(loaded, "logs"), "workItemId")
         = Without(Without(doc, "logs"), "workItemId")
    /\ IF Has(doc, "logs") THEN loaded.logs = doc.logs
       ELSE Has(doc, "hours")
            => /\ Len(loaded.logs) = 1
               /\ loaded.logs[1].hours = doc.hours
               /\ loaded.logs[1].date =
                    (IF Has(doc, "updatedAt") THEN (doc.updatedAt + 1) \div 2
                     ELSE (doc.createdAt + 1) \div 2)

\* C18: a loaded record without logs but with the legacy scalar hours gets
\* exactly one log, with those hours and the calendar date of updatedAt, or of
\* createdAt when there is no updatedAt; a record with logs keeps its logs; no
\* other field but the normalised workItemId differs from the stored one.
C18_ShimContent ==
    /\ (Returned("getTimeEntry") /\ ret.value # Null) => ShimOf(store[ret.id], ret.value)
    /\ (Returned("getAllTimeEntries") /\ ~ret.failed)
         => /\ Len(ret.value) = Cardinality(DOMAIN store)
            /\ \A k \in 1..Len(ret.value) :
                 ShimOf(store[ret.value[k].id], ret.value[k])

\* a bulk read has returned a legacy record updated after its creation day,
\* one without updatedAt, and a record with two logs
C18_Witness ==
    /\ Returned("getAllTimeEntries") /\ ~ret.failed
    /\ \E k \in 1..Len(ret.value) :
         LET doc == store[ret.value[k].id]
         IN  ~Has(doc, "logs") /\ Has(doc, "updatedAt")
             /\ (doc.updatedAt + 1) \div 2 # (doc.createdAt + 1) \div 2
    /\ \E k \in 1..Len(ret.value) :
         LET doc == store[ret.value[k].id]
         IN  ~Has(doc, "logs") /\ ~Has(doc, "updatedAt")
    /\ \E k \in 1..Len(ret.value) :
         LET doc == store[ret.value[k].id]
         IN  Has(doc, "logs") /\ Len(doc.logs) = 2

\* a log of a stored record matches the criteria f: its date is within the
\* range, and the record's user, type, project and work item are the asked ones
LogMatches(doc, log, f) ==
    /\ Has(f, "startDate") => f.startDate <= log.date
    /\ Has(f, "endDate") => log.date <= f.endDate
    /\ Has(f, "userId") => doc.userId = f.userId
    /\ Has(f, "workItemType") => (Has(doc, "workItemType") /\ doc.workItemType = f.workItemType)
    /\ Has(f, "projectId") => (Has(doc, "projectId") /\ doc.projectId = f.projectId)
    /\ Has(f, "workItemId") => ToStr(Num(WorkItemOf(doc))) = f.workItemId

RECURSIVE MatchingHours(_, _, _)
MatchingHours(doc, logs, f) ==
    IF logs = << >> THEN 0
    ELSE (IF LogMatches(doc, logs[1], f) THEN logs[1].hours ELSE 0)
         + MatchingHours(doc, Tail(logs), f)

RECURSIVE MatchingTotal(_, _)
\* the hours of the matching logs of the records S
MatchingTotal(S, f) ==
    IF S = {} THEN 0
    ELSE LET id == CHOOSE x \in S : TRUE
         IN  MatchingHours(store[id], StoredLogs(store[id]), f) + MatchingTotal(S \ {id}, f)

RECURSIVE LogCount(_)
LogCount(S) ==
    IF S = {} THEN 0
    ELSE LET id == CHOOSE x \in S : TRUE
         IN  Len(StoredLogs(store[id])) + LogCount(S \ {id})

\* C19: the total hours of a report for a filter is the sum of the hours of
\* exactly the logs, over all records, that match the filter; here for the
\* summary that generateReport returns.
C19_ReportTotal ==
    (Returned("generateReport") /\ ~ret.failed)
        => ret.value.totalHours = MatchingTotal(DOMAIN store, ret.filter)

\* the same on the reports page: flatten gives one row per log of each
\* record, and the total shown is that of the matching logs
ReportsPageTotal ==
    (page.loaded /\ ~page.loadFailed)
        => /\ Len(page.flatLogs) = LogCount(DOMAIN store)
           /\ page.summary.totalHours = MatchingTotal(DOMAIN store, page.form)
           /\ page.summary.totalEntries = Len(page.filteredLogs)

\* a row satisfies every criterion the form provides
RowKept(row, form) ==
    /\ Has(form, "startDate") => form.startDate <= row.date
    /\ Has(form, "endDate") => row.date <= form.endDate
    /\ Has(form, "userId") => row.userId = form.userId
    /\ Has(form, "workItemType")
         => (Has(row, "workItemType") /\ row.workItemType = form.workItemType)
    /\ Has(form, "workItemId") => ToStr(row.workItemId) = form.workItemId

UserGroupOf(x) ==
    IF Has(x, "userName") /\ Len(x.userName) > 0 THEN x.userName ELSE x.userId

\* the group by type: "Unknown" when there is no type
TypeGroupOf(x) ==
    IF Has(x, "workItemType") /\ Len(x.workItemType) > 0 THEN x.workItemType
    ELSE <<"U", "n", "k", "n", "o", "w", "n">>

RECURSIVE SumAt(_, _)
\* the hours of the rows at the positions I
SumAt(rows, I) ==
    IF I = {} THEN 0
    ELSE LET i == CHOOSE x \in I : TRUE IN rows[i].hours + SumAt(rows, I \ {i})

\* groups is the grouping of rows under keys: one group per key, each with
\* the hours of its rows
IsGrouping(groups, rows, keys) ==
    /\ {groups[g].label : g \in 1..Len(groups)} = {keys[i] : i \in 1..Len(rows)}
    /\ \A g, h \in 1..Len(groups) : groups[g].label = groups[h].label => g = h
    /\ \A g \in 1..Len(groups) :
         groups[g].value = SumAt(rows, {i \in 1..Len(rows) : keys[i] = groups[g].label})

\* a stored record passes the criteria of a report: the record's project,
\* user and type, and the day of its last update
RecordKept(doc, f) ==
    /\ Has(f, "projectId") => (Has(doc, "projectId") /\ doc.projectId = f.projectId)
    /\ Has(f, "userId") => doc.userId = f.userId
    /\ Has(f, "workItemType") => (Has(doc, "workItemType") /\ doc.workItemType = f.workItemType)
    /\ Has(f, "startDate")
         => (Has(doc, "updatedAt") /\ (doc.updatedAt + 1) \div 2 >= f.startDate)
    /\ Has(f, "endDate")
         => (Has(doc, "updatedAt") /\ (doc.updatedAt + 1) \div 2 <= f.endDate)

KeptIds(f) == {id \in DOMAIN store : RecordKept(store[id], f)}

RECURSIVE DocSum(_)
\* the hours of all logs of the records S
DocSum(S) ==
    IF S = {} THEN 0
    ELSE LET id == CHOOSE x \in S : TRUE
         IN  HoursOfLogs(StoredLogs(store[id])) + DocSum(S \ {id})

\* C21: the hours are grouped by user display name, by userId for a row
\* without display name, and by work item type, by "Unknown" for a row
\* without type; the value of a group is the sum of the hours of its rows.
\* On the page the rows are the filtered logs, in generateReport the
\* filtered records.
C21_Grouping ==
    /\ page.loaded
         => LET rows == page.filteredLogs
            IN  /\ IsGrouping(page.hoursByUser, rows,
                              [i \in 1..Len(rows) |-> UserGroupOf(rows[i])])
                /\ IsGrouping(page.hoursByType, rows,
                              [i \in 1..Len(rows) |-> TypeGroupOf(rows[i])])
    /\ (Returned("generateReport") /\ ~ret.failed)
         => LET kept == KeptIds(ret.filter)
            IN  /\ DOMAIN ret.value.byUser = {UserGroupOf(store[id]) : id \in kept}
                /\ \A key \in DOMAIN ret.value.byUser :
                     ret.value.byUser[key]
                       = DocSum({id \in kept : UserGroupOf(store[id]) = key})
                /\ DOMAIN ret.value.byWorkItemType = {TypeGroupOf(store[id]) : id \in kept}
                /\ \A key \in DOMAIN ret.value.byWorkItemType :
                     ret.value.byWorkItemType[key]
                       = DocSum({id \in kept : TypeGroupOf(store[id]) = key})

\* the page shows a group under a user id and a group "Unknown", and a
\* group by type that adds up several rows
C21_Witness ==
    /\ page.loaded
    /\ \E g \in 1..Len(page.hoursByUser) :
         page.hoursByUser[g].label = <<"u", "1">> /\ page.hoursByUser[g].value > 0
    /\ \E g \in 1..Len(page.hoursByUser) : page.hoursByUser[g].label = <<"A">>
    /\ \E g \in 1..Len(page.hoursByType) :
         /\ page.hoursByType[g].label = <<"U", "n", "k", "n", "o", "w", "n">>
         /\ Cardinality({i \in 1..Len(page.filteredLogs) :
                            ~Has(page.filteredLogs[i], "workItemType")
                            \/ page.filteredLogs[i].workItemType = << >>}) >= 3
         /\ page.hoursByType[g].value >= 8

(* --- CSV --- *)
\* a reader of CSV that honours quoting: a field that starts with a quote
\* runs to the closing quote, a doubled quote inside it is one quote, commas
\* and line breaks inside it are data; st is the state of the reader
CsvEndField(st) == [st EXCEPT !.row = Append(@, st.field), !.field = << >>, !.mode = "start"]
CsvEndRow(st) ==
    [st EXCEPT !.rows = Append(@, Append(st.row, st.field)), !.row = << >>,
               !.field = << >>, !.mode = "start"]
CsvChar(st, ch) ==
    IF st.mode = "quoted"
    THEN IF ch = "\"" THEN [st EXCEPT !.mode = "closing"]
         ELSE [st EXCEPT !.field = Append(@, ch)]
    ELSE IF st.mode = "closing" /\ ch = "\""
    THEN [st EXCEPT !.field = Append(@, ch), !.mode = "quoted"]
    ELSE IF ch = "," THEN CsvEndField(st)
    ELSE IF ch = "\n" THEN CsvEndRow(st)
    ELSE IF st.mode = "start" /\ ch = "\"" THEN [st EXCEPT !.mode = "quoted"]
    ELSE [st EXCEPT !.field = Append(@, ch), !.mode = "plain"]

RECURSIVE CsvRead(_, _)
\* st.pos is the number of characters read
CsvRead(text, st) ==
    IF st.pos = Len(text) THEN CsvEndRow(st).rows
    ELSE CsvRead(text, [CsvChar(st, text[st.pos + 1]) EXCEPT !.pos = st.pos + 1])

ParseCSV(text) ==
    CsvRead(text, [rows |-> << >>, row |-> << >>, field |-> << >>, mode |-> "start", pos |-> 0])

\* the fields a reader is to recover from the export of the fields f
ShownOr(text, other) == IF Len(text) > 0 THEN text ELSE other
ExpectedRow(path, f) ==
    IF path = "page"
    THEN <<<<"#", "4", "2">>, ShownOr(f.workItemType, <<"-">>), <<"3">>,
           ShownOr(f.userName, <<"u", "1">>), f.description, <<"1">>>>
    ELSE <<<<"4", "2">>, f.workItemTitle, f.workItemType, <<"3">>,
           ShownOr(f.userName, <<"u", "1">>), f.description, <<"2">>>>
ExpectedHeader(path) ==
    IF path = "page"
    THEN <<<<"Work Item">>, <<"Type">>, <<"Hours">>, <<"User">>, <<"Description">>, <<"Date">>>>
    ELSE <<<<"Work Item ID">>, <<"Work Item Title">>, <<"Type">>, <<"Hours">>, <<"User">>,
           <<"Description">>, <<"Last Updated">>>>

\* C22: read back with a reader that honours quoting, the export gives one
\* record per input row after the header, with the field values of the
\* row, whatever delimiters, quotes or line breaks its string fields hold.
C22_RoundTrip ==
    Returned("exportToCSV")
        => ParseCSV(ret.csv)
             = <<ExpectedHeader(ret.path), ExpectedRow(ret.path, ret.fields)>>
               \o (IF ret.two THEN <<ExpectedRow(ret.path, PlainFields)>> ELSE << >>)

\* the part that does hold: when only the quoted fields hold special
\* characters, the export reads back as it was written
QuotedFieldsRoundTrip ==
    (/\ Returned("exportToCSV")
     /\ \A i \in 1..Len(ret.fields.workItemType) : ret.fields.workItemType[i] \in {"a", "b"}
     /\ \A i \in 1..Len(ret.fields.userName) : ret.fields.userName[i] \in {"a", "b"})
        => ParseCSV(ret.csv)
             = <<ExpectedHeader(ret.path), ExpectedRow(ret.path, ret.fields)>>
               \o (IF ret.two THEN <<ExpectedRow(ret.path, PlainFields)>> ELSE << >>)

(* --- settings --- *)
\* the settings proper of a stored document: all but the store's id and token
SettingsIn(coll) ==
    IF <<"global-settings">> \in DOMAIN coll
    THEN [k \in DOMAIN coll[<<"global-settings">>] \ {"id", "etag"} |->
            coll[<<"global-settings">>][k]]
    ELSE << >>

\* what get() returns for the key k of the collection coll: the stored
\* value, the default of hourIncrement (0.5 h, two quarters) without one
GetKey(coll, k) == IF k \in DOMAIN SettingsIn(coll) THEN SettingsIn(coll)[k] ELSE 2

\* C23: after a save(partial) that succeeded, get() returns for every key
\* the value of partial if given, else the value stored before the save,
\* else the default; no stored key is lost, and the persisted document
\* holds the full merged settings.
C23_SaveMerges ==
    Returned("saveSettings")
        => LET before == SettingsIn(ret.before)
               keys == DOMAIN ret.partial \cup DOMAIN before \cup {"hourIncrement"}
           IN  /\ DOMAIN SettingsIn(settings) = keys
               /\ \A k \in keys :
                    /\ GetKey(settings, k)
                         = (IF k \in DOMAIN ret.partial THEN ret.partial[k]
                            ELSE IF k \in DOMAIN before THEN before[k]
                            ELSE 2)
                    /\ SettingsIn(settings)[k] = GetKey(settings, k)

\* a save of a new hourIncrement over a document that also held a key the
\* save did not name, and a save of nothing over a document without
\* hourIncrement
C23_Witness ==
    /\ Returned("saveSettings")
    /\ \/ /\ ret.partial = [hourIncrement |-> 1]
          /\ SettingsIn(ret.before) = [hourIncrement |-> 4, theme |-> <<"d">>]
          /\ SettingsIn(settings) = [hourIncrement |-> 1, theme |-> <<"d">>]
       \/ /\ ret.partial = << >>
          /\ SettingsIn(ret.before) = [theme |-> <<"d">>]
          /\ SettingsIn(settings) = [hourIncrement |-> 2, theme |-> <<"d">>]

(* ------------------- writing over a legacy record ---------------------- *)
\* a stored document in the shape that predates the multi-log format
IsLegacy(doc) == Has(doc, "hours") /\ ~Has(doc, "logs")

\* the one log a legacy document stands for
LegacyLog(doc) ==
    [date |-> DateOf(IF Has(doc, "updatedAt") THEN doc.updatedAt ELSE doc.createdAt),
     hours |-> doc.hours]

\* C24: an accepted write over a legacy record for a date other than the
\* date its scalar hours stand for stores two logs, the legacy one and
\* the new {date, hours}; its audit event is "updated" with previousHours 0.
C24_LegacyKept ==
    [][\A c \in Calls :
          (/\ WroteOk(c)
           /\ Has(store, call[c].id)
           /\ IsLegacy(store[call[c].id])
           /\ call[c].entry.date # LegacyLog(store[call[c].id]).date) =>
              LET before == store[call[c].id]
                  after == store'[call[c].id]
              IN  /\ after.logs = <<LegacyLog(before),
                                    [date |-> call[c].entry.date,
                                     hours |-> call[c].entry.hours]>>
                  /\ Len(after.auditLog) = Len(before.auditLog) + 1
                  /\ LastOf(after.auditLog).action = "updated"
                  /\ LastOf(after.auditLog).previousHours = 0]_vars

\* the first write over a legacy record (3 hours on day 1) was for day 2
C24_Witness ==
    \E id \in DOMAIN store :
        /\ hist[id] = Null
        /\ Has(store[id], "logs")
        /\ Len(store[id].logs) = 2
        /\ store[id].logs[1] = [date |-> 1, hours |-> 3]
        /\ store[id].logs[2].date = 2
        /\ Len(store[id].auditLog) = 2

(* ------------------------ a single writer's calls ---------------------- *)
\* C26: with one writer and a store that is up, every setTimeEntry call
\* that was started settles, and none settles with a rejection: the token
\* it read is the one the store holds when it writes.
C26_EveryCallSucceeds ==
    /\ [](\A c \in Calls : pc[c] = "done" => call[c].result = "ok")
    /\ \A c \in Calls : (pc[c] \in {"read", "write"}) ~> (pc[c] = "done")

\* three calls in a row were accepted for the same record
C26_Witness ==
    /\ started = 3
    /\ \A c \in Calls : pc[c] \in {"idle", "done"}
    /\ \E id \in DOMAIN store :
          /\ Has(store[id], "auditLog")
          /\ Len(store[id].auditLog) >= 3
          /\ store[id].etag >= 3

(* ------------------------------- frame --------------------------------- *)
\* the id of the record of a (workItemId, userId) pair
RecordIdOf(entry) ==
    <<"time-entry-">> \o NumStr(entry.workItemId.num) \o <<"-">> \o entry.userId

\* the document stored under an id, Null when there is none
DocAt(coll, id) == IF Has(coll, id) THEN coll[id] ELSE Null

\* C27: no step of a setTimeEntry call, accepted or rejected, changes a
\* stored document other than the TimeEntries document of the call's
\* (workItemId, userId); the settings collection is never changed.
C27_Frame ==
    [][/\ \A id \in DOMAIN store \cup DOMAIN store' :
             DocAt(store', id) # DocAt(store, id) =>
                \E c \in Calls : Wrote(c) /\ id = RecordIdOf(call[c].entry)
       /\ settings' = settings]_vars

\* user u2's record for work item 42 was written and then a write for it
\* was rejected, next to the records of u1 and of work item 7
C27_Witness ==
    /\ \E c \in Calls : pc[c] = "done" /\ call[c].result # "ok"
                          /\ call[c].id = <<"time-entry-", "4", "2", "-", "u", "2">>
    /\ Has(store, <<"time-entry-", "4", "2", "-", "u", "2">>)
    /\ Has(store, <<"time-entry-", "4", "2", "-", "u", "1">>)
    /\ Has(store, <<"time-entry-", "7", "-", "u", "2">>)
    /\ Has(store, <<"time-entry-", "7", "-", "u", "1">>)

(* ------------------------ the report's breakdowns ---------------------- *)
RECURSIVE MapSum(_)
\* the sum of the values of a map from keys to hours
MapSum(map) ==
    IF DOMAIN map = {} THEN 0
    ELSE LET k == CHOOSE x \in DOMAIN map : TRUE
         IN  map[k] + MapSum([j \in DOMAIN map \ {k} |-> map[j]])

RECURSIVE RowSum(_)
\* the sum of totalHours over the rows of byWorkItem
RowSum(rows) == IF rows = << >> THEN 0 ELSE rows[1].totalHours + RowSum(Tail(rows))

\* C28: in the summary generateReport returns, the values of byUser, the
\* values of byWorkItemType and the totalHours of byWorkItem each add up
\* to totalHours, and byWorkItem has one row per work item of the records
\* that passed the filter, no work item twice.
C28_Breakdowns ==
    Returned("generateReport") =>
        LET v == ret.value
            kept == IF ret.failed THEN {} ELSE KeptIds(ret.filter)
        IN  /\ MapSum(v.byUser) = v.totalHours
            /\ MapSum(v.byWorkItemType) = v.totalHours
            /\ RowSum(v.byWorkItem) = v.totalHours
            /\ \A g, h \in 1..Len(v.byWorkItem) :
                  v.byWorkItem[g].workItemId = v.byWorkItem[h].workItemId => g = h
            /\ {v.byWorkItem[g].workItemId : g \in 1..Len(v.byWorkItem)}
                  = {Num(WorkItemOf(store[id])) : id \in kept}

\* a report over three or more records of two work items, two users and
\* two types, with hours in each breakdown
C28_Witness ==
    /\ Returned("generateReport")
    /\ ret.value.entriesCount >= 3
    /\ Len(ret.value.byWorkItem) = 2
    /\ Cardinality(DOMAIN ret.value.byUser) = 2
    /\ Cardinality(DOMAIN ret.value.byWorkItemType) = 2
    /\ \A g \in 1..2 : ret.value.byWorkItem[g].totalHours > 0
    /\ ret.value.totalHours >= 8

(* ------------------------------ bar charts ----------------------------- *)
\* the position at which a group was added to the data of a chart
AddedAt(data, label) == CHOOSE i \in 1..Len(data) : data[i].label = label

\* group x is shown before group y: more hours, or the same hours and
\* added earlier
Before(data, x, y) ==
    \/ x.value > y.value
    \/ x.value = y.value /\ AddedAt(data, x.label) < AddedAt(data, y.label)

\* the bars are the first ten groups by descending hours, groups with
\* equal hours in the order in which they were added
TopTenInOrder(data, bars) ==
    /\ Len(bars) = (IF Len(data) < 10 THEN Len(data) ELSE 10)
    /\ \A k \in 1..Len(bars) :
          \E i \in 1..Len(data) :
              data[i].label = bars[k].label /\ data[i].value = bars[k].value
    /\ \A k, m \in 1..Len(bars) : k < m => Before(data, bars[k], bars[m])
    /\ \A i \in 1..Len(data) :
          (\A k \in 1..Len(bars) : bars[k].label # data[i].label)
              => \A k \in 1..Len(bars) : Before(data, bars[k], data[i])

\* C30: a bar chart shows the groups by descending hours, only the first
\* ten, and groups with equal hours in the order in which they were added.
C30_TopTenStable ==
    Returned("renderBarChart") => TopTenInOrder(ret.data, ret.chart.bars)

\* the same for charts none of whose groups is named by an array index
TopTenStableForNames ==
    (Returned("renderBarChart")
        /\ \A i \in 1..Len(ret.data) :
              \E j \in 1..Len(ret.data[i].label) :
                  ret.data[i].label[j] \notin {"0", "1", "2", "3", "4", "5", "6", "7", "8", "9"})
      => TopTenInOrder(ret.data, ret.chart.bars)

\* a chart of twelve named groups with equal hours among the ten shown
\* and among those left out
TopTenReached ==
    /\ Returned("renderBarChart")
    /\ ret.labels[2] = <<"b">>
    /\ Len(ret.data) = 12
    /\ Len(ret.chart.bars) = 10
    /\ ret.chart.bars[10].value = 1
    /\ ret.chart.bars[1].value = 2
    /\ ret.chart.bars[9].value = 1

(* -------------------------- the change signal -------------------------- *)
\* C25: after a save on a time-entry page has succeeded, the open reports
\* page gets the page's "timeEntryUpdated" signal and reloads its data.
C25_ReportsReload == ui.unseen ~> ~ui.unseen

\* the same in a browser without BroadcastChannel, where the signal is
\* the storage key the reports page listens for
StorageSignalReloads == (ui.unseen /\ ~ui.bc) ~> ~ui.unseen

(* --------------------------- the save button --------------------------- *)
\* the setTimeEntry calls of tab 1 that have not settled
InFlight == {c \in Calls : tabOf[c] = 1 /\ pc[c] \in {"read", "write"}}

\* C29: while a saveTime call of the page is in its setTimeEntry, the save
\* button is disabled and no second setTimeEntry of the page is under way.
C29_OneSaveAtATime ==
    ui.open => (InFlight # {} => (ui.disabled /\ Cardinality(InFlight) = 1))

====
